---------------------------- MODULE Spec2Model ----------------------------
(***************************************************************************)
(* Model of the subsidy form automation: the composite-widget form filler  *)
(* (formFiller: fillFormData, submitFormData, proceedToConfirmationScreen, *)
(* safeFormFill), and the drivers that own the browser session             *)
(* (fillFormFromJson, fillForm).                                           *)
(*                                                                         *)
(* Text values are sequences of one-character strings ("" is << >>), so    *)
(* that trim, toLowerCase, substring and substring matching are computed.  *)
(* The Japanese literals of the source are written in ASCII:               *)
(*   "法人" = Corporation, "個人事業主" = SoleProprietor,                  *)
(*   "紙申請" = Paper, "電子申請" = Electronic, "東京都" = Tokyo,          *)
(*   "＜ 受付番号: " = the marker prefix "<#:", " ＞" = the suffix ">".     *)
(*                                                                         *)
(* The page is the environment.  An input element located by attribute or  *)
(* id is either on the page for the whole run or not: the first            *)
(* interaction with it decides (the element is recorded in good or bad,    *)
(* and later interactions with it do the same).  Menus, options, buttons   *)
(* and load states are timing dependent: each wait or click on them may    *)
(* succeed or throw.                                                       *)
(***************************************************************************)
EXTENDS Integers, Naturals, Sequences, FiniteSets, TLC

VARIABLES
  driver,       \* which program runs: "fillFormFromJson", "fillForm", "caller"
  data,         \* the FormData record (read-only)
  pc,           \* position of the driver
  browser,      \* "none", "open", "closed"
  fn,           \* engine function being executed ("" when none)
  todo,         \* the awaited calls of fn still ahead, the next one first
  ret,          \* what the last engine function returned or threw
  good,         \* input elements known to be on the page
  bad,          \* input elements known to be missing from the page
  field,        \* value of every page field
  writes,       \* every <<field, value>> written by a fill
  menu,         \* item texts of the open application-reason menu, in DOM order
  offered,      \* the menu listed an item that the reason filler's filter accepts
  view,         \* "entry", "confirmation", "completion"
  pageText,     \* text of the element holding the receipt marker, or NoText
  calls,        \* section fillers invoked, in order
  thrown,       \* every error that left an engine function: <<fn, section, error>>
  caught,       \* the section fillers that caught an error of their own
  fillOk,       \* a fillFormData call has returned normally
  idle,         \* the views whose network-idle wait has returned
  clicks,       \* successful clicks of each button
  submitClickedIn, \* <<fillOk, confirmation idle>> at each click of the final submit button
  acc,          \* submitFormData's local receiptNumber
  token,        \* the receipt token the page shows after the submit, or NoText
  userInput,    \* the raw line the operator typed at the gate, or NoText
  printed,      \* what the driver printed at the end of the try block
  ncalls,       \* caller: engine functions called so far
  argv,         \* process.argv[2] of fillFormFromJson, Undefined when not given
  files,        \* what the file system holds at each path
  exitCode,     \* exit status of the process, "none" while it runs
  script,       \* the deployed sink: "Code.ts", "google-apps-script.js", "none"
  sheetExists,  \* Code.ts: the spreadsheet has a sheet named SHEET_NAME
  sheet,        \* the rows of the sheet, row 1 first
  origin,       \* for each row of the sheet, what wrote it
  answer,       \* the sink's response to the last request
  result,       \* what GoogleFormsService returned last
  mails,        \* recipients of the confirmation e-mails sent
  appends,      \* append requests that the sink answered with success
  nreq,         \* requests made so far
  component,    \* the native form component that is rendered
  values,       \* the native form: the values react-hook-form holds
  errors,       \* the native form: formState.errors, as <<path, message>>
  showConfirmation, \* the native form shows the confirmation screen
  showCompletion,   \* the native form shows the completion screen
  isSubmitted,  \* the native form: formState.isSubmitted
  submitted,    \* the record that the handler that ran last handed to submitForm, if any
  lastEvent,    \* the native form's handler that ran last, "" before the first
  state,        \* useMultiStepForm: the reducer's state
  action,       \* useMultiStepForm: the action dispatched last
  previous,     \* useMultiStepForm: the state the last action was dispatched in
  lookups,      \* postal-code lookups in flight: [block, code, n]
  latest,       \* per address block, the last 7-digit entry: [code, n], n = 0 for none
  applied,      \* per address block, the entries n whose lookup result was written
  isSubmitting, \* the native form's isSubmitting state
  inFlight,     \* submitForm calls that have not returned yet
  attempts,     \* onSubmit calls so far
  ended,        \* how the submitForm call of the onSubmit that ended last came out
  called        \* the callbacks that onSubmit call invoked, in order

vars == << driver, data, pc, browser, fn, todo, ret, good, bad, field, writes, menu,
           offered, view, pageText, calls, thrown, caught, fillOk, idle, clicks,
           submitClickedIn, acc, token, userInput, printed, ncalls, argv, files,
           exitCode, script, sheetExists, sheet, origin, answer, result, mails,
           appends, nreq, component, values, errors, showConfirmation, showCompletion,
           isSubmitted, submitted, lastEvent, state, action, previous, lookups,
           latest, applied, isSubmitting, inFlight, attempts, ended, called >>

\* the state of the sink and of its client
sinkVars == << script, sheetExists, sheet, origin, answer, result, mails,
               appends, nreq >>

\* the state of the single-page form components
nativeVars == << component, values, errors, showConfirmation, showCompletion,
                 isSubmitted, submitted, lastEvent >>

\* the state of the multi-step hook
hookVars == << state, action, previous >>

\* the state of the postal-code lookups
lookupVars == << lookups, latest, applied >>

\* the state of the submission attempts
attemptVars == << isSubmitting, inFlight, attempts, ended, called >>

\* the parts of the form's state that the handlers of the entry and
\* confirmation screens leave alone
asideVars == << hookVars, lookupVars, attemptVars >>

\* the state of the collaborator form
formVars == << nativeVars, asideVars >>

-----------------------------------------------------------------------------
(* Bounds *)

MaxInputLen == 2     \* longest operator input line
MaxMenuLen == 2      \* most items in the application-reason menu
MaxCalls == 2        \* engine functions a caller invokes
MaxRequests == 3     \* requests that reach the sink or its client

-----------------------------------------------------------------------------
(* Strings *)

NoText == << "<none>" >>

Min(a, b) == IF a < b THEN a ELSE b

\* String.prototype.substring(0, n)
substring(s, n) == SubSeq(s, 1, Min(n, Len(s)))

IsWhitespace(c) == c \in {" ", "\n"}

RECURSIVE TrimStart(_)
TrimStart(s) ==
  IF s = << >> THEN << >>
  ELSE IF IsWhitespace(Head(s)) THEN TrimStart(Tail(s)) ELSE s

RECURSIVE TrimEnd(_)
TrimEnd(s) ==
  IF s = << >> THEN << >>
  ELSE IF IsWhitespace(s[Len(s)]) THEN TrimEnd(SubSeq(s, 1, Len(s) - 1)) ELSE s

\* String.prototype.trim
trim(s) == TrimEnd(TrimStart(s))

LowerChar(c) == IF c = "Y" THEN "y" ELSE IF c = "N" THEN "n" ELSE c

\* String.prototype.toLowerCase
toLowerCase(s) == [i \in 1..Len(s) |-> LowerChar(s[i])]

\* t occurs in s (Playwright's hasText filter on a string)
hasText(s, t) ==
  \E i \in 0..(Len(s) - Len(t)) : SubSeq(s, i + 1, i + Len(t)) = t

RECURSIVE SeqsUpTo(_, _)
SeqsUpTo(S, n) ==
  IF n = 0 THEN { << >> }
  ELSE LET shorter == SeqsUpTo(S, n - 1)
       IN  shorter \cup { Append(s, c) : s \in shorter, c \in S }

Range(s) == { s[i] : i \in 1..Len(s) }

Digit(d) == CASE d = 0 -> "0" [] d = 1 -> "1" [] d = 2 -> "2" [] d = 3 -> "3"
              [] d = 4 -> "4" [] d = 5 -> "5" [] d = 6 -> "6" [] d = 7 -> "7"
              [] d = 8 -> "8" [] d = 9 -> "9"

\* Number.prototype.toString of a non-negative integer
RECURSIVE toString(_)
toString(n) ==
  IF n < 10 THEN << Digit(n) >>
  ELSE Append(toString(n \div 10), Digit(n % 10))

-----------------------------------------------------------------------------
(* FormData *)

Corporation == << "Corporation" >>
SoleProprietor == << "SoleProprietor" >>
Paper == << "Paper" >>
Electronic == << "Electronic" >>
Tokyo == << "Tokyo" >>

\* Reason texts: one is contained in another (as "その他" is in
\* "その他のウェブサイト"), one is shorter than three characters.
ReasonTexts == { << "a", "b", "c" >>, << "a", "b", "c", "d" >>, << "x", "y" >> }

\* entity type, application method, worker count and agent name, drawn together
Profiles == { << Corporation, Paper, 50, << >> >>,
              << SoleProprietor, Electronic, 2, << "agentName" >> >>,
              << Corporation, Electronic, 300, << "agentName" >> >> }

Optional(v) == { << >>, v }

FormData(profile, a2, reason) ==
  [ entityType |-> profile[1],
    companyName |-> << "companyName" >>,
    companyNameKana |-> << "companyNameKana" >>,
    representativeLastName |-> << "representativeLastName" >>,
    representativeFirstName |-> << "representativeFirstName" >>,
    representativeLastNameKana |-> << "representativeLastNameKana" >>,
    representativeFirstNameKana |-> << "representativeFirstNameKana" >>,
    address1PostalCode |-> << "address1PostalCode" >>,
    address1Prefecture |-> Tokyo,
    address1City |-> << "address1City" >>,
    address1Street |-> << "address1Street" >>,
    address2PostalCode |-> a2[1],
    address2Prefecture |-> a2[2],
    address2City |-> a2[3],
    address2Street |-> a2[4],
    workerCount |-> profile[3],
    applicationMethod |-> profile[2],
    contactLastName |-> << "contactLastName" >>,
    contactFirstName |-> << "contactFirstName" >>,
    contactLastNameKana |-> << "contactLastNameKana" >>,
    contactFirstNameKana |-> << "contactFirstNameKana" >>,
    contactPhone |-> << "contactPhone" >>,
    contactEmail |-> << "contactEmail" >>,
    agentName |-> profile[4],
    applicationReason |-> reason ]

Address2Values ==
  Optional(<< "address2PostalCode" >>) \X Optional(Tokyo)
    \X Optional(<< "address2City" >>) \X Optional(<< "address2Street" >>)

Records ==
  { FormData(p, a2, reason) :
      p \in Profiles, a2 \in Address2Values, reason \in ReasonTexts }

\* the record of the fillForm test driver
testData ==
  FormData(<< Corporation, Paper, 50, << >> >>, << << >>, << >>, << >>, << >> >>,
           << "a", "b", "c", "d" >>)

\* JavaScript truthiness of a string
Truthy(s) == s # << >>

-----------------------------------------------------------------------------
(* Page interactions.  An engine function is the sequence of the Playwright  *)
(* calls it awaits; api names the call, sel and key the locator, val the      *)
(* value passed, field the page field the call sets, sec the section filler   *)
(* the call belongs to.  catch > 0: the call is inside a try block whose      *)
(* handler starts catch interactions further on; skip: interactions of the    *)
(* handler that a successful call at the end of the try block passes over.    *)

Op(api, sel, key, val, fld, sec) ==
  [ api |-> api, sel |-> sel, key |-> key, val |-> val, field |-> fld,
    sec |-> sec, ms |-> 0, catch |-> 0, skip |-> 0 ]

Call(sec) == Op("call", "", << >>, << >>, "", sec)
Fill(sec, sel, v) == Op("fill", sel, << >>, v, sel, sec)
Type(sec, sel, v) == Op("type", sel, << >>, v, sel, sec)
Press(sec, sel, k) == Op("press", sel, << >>, k, "", sec)
Click(sec, sel) == Op("click", sel, << >>, << >>, "", sec)
\* a click that selects the value key of the field fld (radio, menu option)
ClickValue(sec, sel, key, fld) == Op("click", sel, key, key, fld, sec)
WaitForTimeout(sec, ms) ==
  [ Op("waitForTimeout", "", << >>, << >>, "", sec) EXCEPT !.ms = ms ]
WaitForSelector(sec, sel, ms) ==
  [ Op("waitForSelector", sel, << >>, << >>, "", sec) EXCEPT !.ms = ms ]
WaitForLoadState(sec, loadState) == Op("waitForLoadState", loadState, << >>, << >>, "", sec)

InTry(op, catch, skip) == [ op EXCEPT !.catch = catch, !.skip = skip ]

\* input elements located by attribute or id
Inputs ==
  { "company_name", "company_furigana", "lastname", "firstname",
    "lastfurigana", "firstfurigana",
    "4.zipcode", "4.address1", "4.address2",
    "5.zipcode", "5.address1", "5.address2",
    "#label6", "saff_lastname", "saff_firstname", "saff_lastfurigana",
    "staff_firstfurigana", "#label20", "email", "reemail", "#label15",
    "#label23" }

Address2Fields == { "5.zipcode", "5.prefecture", "5.address1", "5.address2" }

\* every page field: the inputs, the radio groups and the prefecture selects
Fields == Inputs \cup { "entityType", "applicationMethod",
                        "4.prefecture", "5.prefecture" }

-----------------------------------------------------------------------------
(* Section fillers (composite-widget page) *)

selectEntityType(type) ==
  << Call("selectEntityType"),
     ClickValue("selectEntityType", ".v-radio", type, "entityType"),
     WaitForTimeout("selectEntityType", 500) >>

fillCompanyInfo(d) ==
  << Call("fillCompanyInfo"),
     Fill("fillCompanyInfo", "company_name", d.companyName),
     Fill("fillCompanyInfo", "company_furigana", d.companyNameKana) >>

fillRepresentativeInfo(d) ==
  << Call("fillRepresentativeInfo"),
     Fill("fillRepresentativeInfo", "lastname", d.representativeLastName),
     Fill("fillRepresentativeInfo", "firstname", d.representativeFirstName),
     Fill("fillRepresentativeInfo", "lastfurigana", d.representativeLastNameKana),
     Fill("fillRepresentativeInfo", "firstfurigana", d.representativeFirstNameKana) >>

\* mutant: a menu that does not show up is ignored and the option is clicked
selectPrefecture_Guess(sec, fld, prefecture) ==
  << Click(sec, "v-select"),
     WaitForTimeout(sec, 500),
     InTry(WaitForSelector(sec, ".v-menu__content:visible", 5000), 1, 0),
     ClickValue(sec, "option", prefecture, fld) >>

\* click the v-select container, wait for the menu, click the option
selectPrefecture(sec, fld, prefecture) ==
  << Click(sec, "v-select"),
     WaitForTimeout(sec, 500),
     WaitForSelector(sec, ".v-menu__content:visible", 5000),
     ClickValue(sec, "option", prefecture, fld) >>

fillCompanyAddress1(d) ==
  << Call("fillCompanyAddress1"),
     Fill("fillCompanyAddress1", "4.zipcode", d.address1PostalCode) >>
  \o selectPrefecture("fillCompanyAddress1", "4.prefecture", d.address1Prefecture)
  \o << Fill("fillCompanyAddress1", "4.address1", d.address1City),
        Fill("fillCompanyAddress1", "4.address2", d.address1Street) >>

fillCompanyAddress2(d) ==
  << Call("fillCompanyAddress2") >>
  \o (IF Truthy(d.address2PostalCode)
        THEN << Fill("fillCompanyAddress2", "5.zipcode", d.address2PostalCode) >>
        ELSE << >>)
  \o (IF Truthy(d.address2Prefecture)
        THEN selectPrefecture("fillCompanyAddress2", "5.prefecture",
                              d.address2Prefecture)
        ELSE << >>)
  \o (IF Truthy(d.address2City)
        THEN << Fill("fillCompanyAddress2", "5.address1", d.address2City) >>
        ELSE << >>)
  \o (IF Truthy(d.address2Street)
        THEN << Fill("fillCompanyAddress2", "5.address2", d.address2Street) >>
        ELSE << >>)

fillWorkerCount(count) ==
  << Call("fillWorkerCount"),
     Fill("fillWorkerCount", "#label6", toString(count)) >>

selectApplicationMethod(method) ==
  << Call("selectApplicationMethod"),
     ClickValue("selectApplicationMethod", ".v-radio", method, "applicationMethod"),
     WaitForTimeout("selectApplicationMethod", 500) >>

\* mutant: the confirmation field is left alone
fillContactInfo_NoConfirmation(d) ==
  << Call("fillContactInfo"),
     Fill("fillContactInfo", "saff_lastname", d.contactLastName),
     Fill("fillContactInfo", "saff_firstname", d.contactFirstName),
     Fill("fillContactInfo", "saff_lastfurigana", d.contactLastNameKana),
     Fill("fillContactInfo", "staff_firstfurigana", d.contactFirstNameKana),
     Fill("fillContactInfo", "#label20", d.contactPhone),
     Fill("fillContactInfo", "email", d.contactEmail) >>

fillContactInfo(d) ==
  << Call("fillContactInfo"),
     Fill("fillContactInfo", "saff_lastname", d.contactLastName),
     Fill("fillContactInfo", "saff_firstname", d.contactFirstName),
     Fill("fillContactInfo", "saff_lastfurigana", d.contactLastNameKana),
     Fill("fillContactInfo", "staff_firstfurigana", d.contactFirstNameKana),
     Fill("fillContactInfo", "#label20", d.contactPhone),
     Fill("fillContactInfo", "email", d.contactEmail),
     Fill("fillContactInfo", "reemail", d.contactEmail) >>

fillAgentName(agentName) ==
  << Call("fillAgentName"),
     Fill("fillAgentName", "#label15", agentName) >>

\* mutant: the handler commits with Enter but forgets the direct fill
selectApplicationReason_NoDirectFill(reason) ==
  << Call("selectApplicationReason"),
     Click("selectApplicationReason", "#label23"),
     WaitForTimeout("selectApplicationReason", 1000),
     Fill("selectApplicationReason", "#label23", << >>),
     Type("selectApplicationReason", "#label23", substring(reason, 3)),
     WaitForTimeout("selectApplicationReason", 500),
     InTry(WaitForSelector("selectApplicationReason", ".v-menu__content .v-list", 3000),
           2, 0),
     InTry(Op("clickFirstHasText", ".v-list-item", reason, << >>, "#label23",
              "selectApplicationReason"), 1, 1),
     Press("selectApplicationReason", "#label23", << "Enter" >>) >>

selectApplicationReason(reason) ==
  << Call("selectApplicationReason"),
     Click("selectApplicationReason", "#label23"),
     WaitForTimeout("selectApplicationReason", 1000),
     Fill("selectApplicationReason", "#label23", << >>),
     Type("selectApplicationReason", "#label23", substring(reason, 3)),
     WaitForTimeout("selectApplicationReason", 500),
     \* try
     InTry(WaitForSelector("selectApplicationReason", ".v-menu__content .v-list", 3000),
           2, 0),
     InTry(Op("clickFirstHasText", ".v-list-item", reason, << >>, "#label23",
              "selectApplicationReason"), 1, 2),
     \* catch
     Fill("selectApplicationReason", "#label23", reason),
     Press("selectApplicationReason", "#label23", << "Enter" >>) >>

-----------------------------------------------------------------------------
(* Engine functions *)

\* mutant: the contact section is filled before the application method
fillFormData_Reordered(d) ==
  selectEntityType(d.entityType)
  \o fillCompanyInfo(d)
  \o fillRepresentativeInfo(d)
  \o fillCompanyAddress1(d)
  \o (IF Truthy(d.address2PostalCode) \/ Truthy(d.address2City)
         \/ Truthy(d.address2Street)
        THEN fillCompanyAddress2(d) ELSE << >>)
  \o fillWorkerCount(d.workerCount)
  \o fillContactInfo(d)
  \o selectApplicationMethod(d.applicationMethod)
  \o (IF Truthy(d.agentName) THEN fillAgentName(d.agentName) ELSE << >>)
  \o selectApplicationReason(d.applicationReason)

\* mutant: the company section is filled again when it fails
fillFormData_Retry(d) ==
  selectEntityType(d.entityType)
  \o << Call("fillCompanyInfo"),
        InTry(Fill("fillCompanyInfo", "company_name", d.companyName), 2, 0),
        InTry(Fill("fillCompanyInfo", "company_furigana", d.companyNameKana), 1, 3) >>
  \o fillCompanyInfo(d)
  \o fillRepresentativeInfo(d)
  \o fillCompanyAddress1(d)
  \o (IF Truthy(d.address2PostalCode) \/ Truthy(d.address2City)
         \/ Truthy(d.address2Street)
        THEN fillCompanyAddress2(d) ELSE << >>)
  \o fillWorkerCount(d.workerCount)
  \o selectApplicationMethod(d.applicationMethod)
  \o fillContactInfo(d)
  \o (IF Truthy(d.agentName) THEN fillAgentName(d.agentName) ELSE << >>)
  \o selectApplicationReason(d.applicationReason)

\* mutant: a failure while filling the company section is swallowed
fillFormData_Swallow(d) ==
  selectEntityType(d.entityType)
  \o << Call("fillCompanyInfo"),
        InTry(Fill("fillCompanyInfo", "company_name", d.companyName), 2, 0),
        InTry(Fill("fillCompanyInfo", "company_furigana", d.companyNameKana), 1, 0) >>
  \o fillRepresentativeInfo(d)
  \o fillCompanyAddress1(d)
  \o (IF Truthy(d.address2PostalCode) \/ Truthy(d.address2City)
         \/ Truthy(d.address2Street)
        THEN fillCompanyAddress2(d) ELSE << >>)
  \o fillWorkerCount(d.workerCount)
  \o selectApplicationMethod(d.applicationMethod)
  \o fillContactInfo(d)
  \o (IF Truthy(d.agentName) THEN fillAgentName(d.agentName) ELSE << >>)
  \o selectApplicationReason(d.applicationReason)

fillFormData(d) ==
  selectEntityType(d.entityType)
  \o fillCompanyInfo(d)
  \o fillRepresentativeInfo(d)
  \o fillCompanyAddress1(d)
  \o (IF Truthy(d.address2PostalCode) \/ Truthy(d.address2City)
         \/ Truthy(d.address2Street)
        THEN fillCompanyAddress2(d) ELSE << >>)
  \o fillWorkerCount(d.workerCount)
  \o selectApplicationMethod(d.applicationMethod)
  \o fillContactInfo(d)
  \o (IF Truthy(d.agentName) THEN fillAgentName(d.agentName) ELSE << >>)
  \o selectApplicationReason(d.applicationReason)

\* the receipt lookup: getByText(/marker/).textContent()
TextContent(sec) == Op("textContent", "receipt-marker", << >>, << >>, "", sec)
\* return receiptNumber || ""
ReturnReceipt(sec) == Op("return", "", << >>, << >>, "", sec)

\* mutant: the final submit button is clicked without waiting for the
\* confirmation screen
submitFormData_NoConfirmWait ==
  << Click("submitFormData", "form-detail--to-confirm-button"),
     Click("submitFormData", "form-detail--to-completion-button"),
     WaitForLoadState("submitFormData", "networkidle"),
     TextContent("submitFormData"),
     ReturnReceipt("submitFormData") >>

\* mutant: a failed receipt lookup is swallowed and "" is returned
submitFormData_SwallowLookup ==
  << Click("submitFormData", "form-detail--to-confirm-button"),
     WaitForLoadState("submitFormData", "networkidle"),
     Click("submitFormData", "form-detail--to-completion-button"),
     WaitForLoadState("submitFormData", "networkidle"),
     InTry(TextContent("submitFormData"), 1, 0),
     ReturnReceipt("submitFormData") >>

submitFormData ==
  << Click("submitFormData", "form-detail--to-confirm-button"),
     WaitForLoadState("submitFormData", "networkidle"),
     Click("submitFormData", "form-detail--to-completion-button"),
     WaitForLoadState("submitFormData", "networkidle"),
     TextContent("submitFormData"),
     ReturnReceipt("submitFormData") >>

proceedToConfirmationScreen ==
  << Click("proceedToConfirmationScreen", "form-detail--to-confirm-button"),
     WaitForLoadState("proceedToConfirmationScreen", "networkidle") >>

\* the interactions of the engine function f on the record d;
\* safeFormFill awaits fillFormData
Program(f, d) ==
  CASE f = "fillFormData" -> fillFormData(d)
    [] f = "safeFormFill" -> fillFormData(d)
    [] f = "submitFormData" -> submitFormData
    [] f = "proceedToConfirmationScreen" -> proceedToConfirmationScreen

-----------------------------------------------------------------------------
(* The page *)

RECURSIVE DistinctSeqs(_, _)
\* the sequences of at most n distinct elements of S
DistinctSeqs(S, n) ==
  IF n = 0 THEN { << >> }
  ELSE LET shorter == DistinctSeqs(S, n - 1)
       IN  shorter \cup
             UNION { { Append(s, c) : c \in S \ Range(s) } : s \in shorter }

\* what the application-reason menu may list once it is visible
Menus == DistinctSeqs(ReasonTexts, MaxMenuLen)

\* receipt tokens (\w+)
Tokens == { << "A", "B", "C", "1", "2", "3" >>, << "7" >> }

\* the marker "＜ 受付番号: <token> ＞"
Marker(tok) == << "<", " ", "No", ":", " " >> \o tok \o << " ", ">" >>

\* the text of the element that holds the marker: the marker alone, or
\* the marker after other text of the same element
MarkerElementTexts(tok) == { Marker(tok), << "Thanks", " " >> \o Marker(tok) }

\* the completion page: <<text of the marker element, token>>, or no marker
CompletionPages ==
  { << NoText, NoText >> }
    \cup UNION { { << txt, tok >> : txt \in MarkerElementTexts(tok) } :
                  tok \in Tokens }

Null == << "<null>" >>
Undefined == << "<undefined>" >>
NoError == << "", "", << >> >>

\* the error Playwright throws for a failed call: the call and its locator
ErrorOf(op) == << op.api, op.sel, op.key >>

\* index of the first menu item whose text contains t, 0 if none
RECURSIVE FirstHasText(_, _, _)
FirstHasText(items, t, i) ==
  IF i > Len(items) THEN 0
  ELSE IF hasText(items[i], t) THEN i ELSE FirstHasText(items, t, i + 1)

IsConfirmClick(op) ==
  op.api = "click" /\ op.sel = "form-detail--to-confirm-button"
IsCompletionClick(op) ==
  op.api = "click" /\ op.sel = "form-detail--to-completion-button"
IsReasonMenuWait(op) ==
  op.api = "waitForSelector" /\ op.sel = ".v-menu__content .v-list"

\* the floating menu closes on a selection and on Enter
ClosesMenu(op) == op.api \in { "clickFirstHasText", "press" }

\* the labels of the page's radio buttons
RadioLabels == { Corporation, SoleProprietor, Paper, Electronic }

\* the page lets the call succeed
CanSucceed(op) ==
  CASE IsConfirmClick(op) -> view = "entry"
    [] op.sel = ".v-radio" -> op.key \in RadioLabels
    [] IsCompletionClick(op) -> view = "confirmation"
    [] op.api = "clickFirstHasText" -> FirstHasText(menu, op.key, 1) # 0
    [] op.api = "textContent" -> pageText # NoText
    [] op.sel \in Inputs -> op.sel \notin bad
    [] OTHER -> TRUE

\* the page lets the call throw (time out)
CanThrow(op) ==
  CASE op.api \in { "call", "waitForTimeout", "return" } -> FALSE
    [] op.sel \in Inputs -> op.sel \notin good
    [] op.api = "textContent" -> pageText = NoText
    [] OTHER -> TRUE

-----------------------------------------------------------------------------
(* The drivers' reading of the operator *)

OperatorInputs == SeqsUpTo({ "y", "Y", "n", "\n" }, MaxInputLen)

\* mutant: every answer but n submits
Confirms_AllButNo(input) == toLowerCase(trim(input)) # << "n" >>

\* data.toString().trim().toLowerCase() === 'y'
Confirms(input) == toLowerCase(trim(input)) = << "y" >>

\* the record a caller of the engine functions passes
CallerRecords == { testData }

\* the input file of fillFormFromJson
DefaultPath == << "form-data.json" >>
Paths == { DefaultPath, << "in.json" >> }
Argvs == { Undefined, << >> } \cup (Paths \ { DefaultPath })

\* process.argv[2] || path.join(__dirname, "form-data.json")
JsonPath(arg) == IF arg = Undefined \/ ~Truthy(arg) THEN DefaultPath ELSE arg

\* a file is absent, is not JSON, is JSON of another shape than FormData
\* (an entity type outside the enumeration), or is a FormData document
FileKinds == { "absent", "unparseable", "wrongShape", "valid" }

NoFiles == [ p \in Paths |-> "absent" ]

\* the command lines and file systems of fillFormFromJson: every state of
\* the two paths when the file read is not a FormData document, and the
\* default path alone for the FormData documents
Invocations ==
  { << a, f >> \in Argvs \X [ Paths -> FileKinds ] :
      f[JsonPath(a)] = "valid" =>
        a = Undefined /\ \A p \in Paths \ { DefaultPath } : f[p] = "absent" }

\* no document has been read
NoFormData ==
  FormData(<< << >>, << >>, 0, << >> >>, << << >>, << >>, << >>, << >> >>, << >>)

\* a JSON document that is not a FormData: its entity type is not of the
\* enumeration
WrongShapeRecords ==
  { FormData(<< << "NPO" >>, Paper, 50, << >> >>,
             << << >>, << >>, << >>, << >> >>, << "x", "y" >>) }

\* what JSON.parse yields for the file
Documents(file) ==
  CASE file = "valid" -> Records
    [] file = "wrongShape" -> WrongShapeRecords
    [] OTHER -> { NoFormData }

EngineFunctions ==
  { "fillFormData", "safeFormFill", "submitFormData", "proceedToConfirmationScreen" }

-----------------------------------------------------------------------------
(* The submission sink (Apps Script: Code.ts and google-apps-script.js) and  *)
(* its client GoogleFormsService: data.  A missing property and an absent    *)
(* optional value are Undefined; an optional object is << >> when absent and *)
(* << object >> when present.  JavaScript's index i is position i + 1.       *)

Emails == { << "a@x" >>, << "b@x" >> }

\* new Date().toISOString() / toLocaleString('ja-JP')
Now == << "timestamp" >>

\* data[key] of a parsed JSON object: undefined for a missing property
Get(obj, key) == IF key \in DOMAIN obj THEN obj[key] ELSE Undefined

\* value || ''
OrEmpty(v) == IF v = Undefined \/ v = << >> THEN << >> ELSE v

\* object?.key
OptionalChain(obj, key) == IF obj = << >> THEN Undefined ELSE Get(obj[1], key)

\* row[i] of a JavaScript array: undefined beyond its end
Index(row, i) == IF i + 1 \in DOMAIN row THEN row[i + 1] ELSE Undefined

\* secondaryAddress?: Partial<Address>
SecondaryAddresses ==
  { << >>,
    << [ city |-> << "secondaryAddress.city" >> ] >>,
    << [ postalCode |-> << "secondaryAddress.postalCode" >>,
         prefecture |-> Tokyo,
         city |-> << "secondaryAddress.city" >>,
         street |-> << "secondaryAddress.street" >> ] >> }

\* agent?: string
Agents == { Undefined, << >>, << "agent" >> }

\* SubsidyFormData
SubsidyFormData(email, secondary, agent) ==
  [ entityType |-> Corporation,
    company |-> [ name |-> << "company.name" >>,
                  nameKana |-> << "company.nameKana" >> ],
    representative |->
      [ lastName |-> << "representative.lastName" >>,
        firstName |-> << "representative.firstName" >>,
        lastNameKana |-> << "representative.lastNameKana" >>,
        firstNameKana |-> << "representative.firstNameKana" >> ],
    primaryAddress |->
      [ postalCode |-> << "primaryAddress.postalCode" >>,
        prefecture |-> Tokyo,
        city |-> << "primaryAddress.city" >>,
        street |-> << "primaryAddress.street" >> ],
    secondaryAddress |-> secondary,
    employeeCount |-> 50,
    applicationMethod |-> Paper,
    contact |-> [ lastName |-> << "contact.lastName" >>,
                  firstName |-> << "contact.firstName" >>,
                  lastNameKana |-> << "contact.lastNameKana" >>,
                  firstNameKana |-> << "contact.firstNameKana" >>,
                  phone |-> << "contact.phone" >>,
                  email |-> email ],
    agent |-> agent,
    applicationReason |-> << "a", "b", "c" >> ]

Submissions ==
  { SubsidyFormData(e, << >>, Undefined) : e \in Emails }
    \cup { SubsidyFormData(<< "a@x" >>, sa, ag) :
             sa \in SecondaryAddresses, ag \in Agents }

\* the records that the native form posts: a secondary address goes with an
\* agent entry, empty or not
PostedSubmissions ==
  { r \in Submissions : (r.secondaryAddress = << >>) <=> (r.agent = Undefined) }

\* the flat document that the static page posts to google-apps-script.js
FlatFormData(email) ==
  [ entityType |-> Corporation,
    companyName |-> << "companyName" >>,
    companyNameKana |-> << "companyNameKana" >>,
    representativeLastName |-> << "representativeLastName" >>,
    representativeFirstName |-> << "representativeFirstName" >>,
    representativeLastNameKana |-> << "representativeLastNameKana" >>,
    representativeFirstNameKana |-> << "representativeFirstNameKana" >>,
    address1PostalCode |-> << "address1PostalCode" >>,
    address1Prefecture |-> Tokyo,
    address1City |-> << "address1City" >>,
    address1Street |-> << "address1Street" >>,
    employeeCount |-> << "5", "0" >>,
    applicationMethod |-> Paper,
    contactLastName |-> << "contactLastName" >>,
    contactFirstName |-> << "contactFirstName" >>,
    contactLastNameKana |-> << "contactLastNameKana" >>,
    contactFirstNameKana |-> << "contactFirstNameKana" >>,
    contactPhone |-> << "contactPhone" >>,
    contactEmail |-> email,
    applicationReason |-> << "a", "b", "c" >> ]

FlatSubmissions == { FlatFormData(e) : e \in Emails \cup { << >> } }

\* Code.ts, handleAppendRow: the header row (the Japanese column titles, in
\* English)
headers ==
  << << "SentAt" >>, << "EntityType" >>, << "CompanyName" >>,
     << "CompanyNameKana" >>,
     << "RepresentativeLastName" >>, << "RepresentativeFirstName" >>,
     << "RepresentativeLastNameKana" >>, << "RepresentativeFirstNameKana" >>,
     << "Address1PostalCode" >>, << "Address1Prefecture" >>,
     << "Address1City" >>, << "Address1Street" >>,
     << "Address2PostalCode" >>, << "Address2Prefecture" >>,
     << "Address2City" >>, << "Address2Street" >>,
     << "WorkerCount" >>, << "ApplicationMethod" >>,
     << "ContactLastName" >>, << "ContactFirstName" >>,
     << "ContactLastNameKana" >>, << "ContactFirstNameKana" >>,
     << "ContactPhone" >>, << "ContactEmail" >>,
     << "AgentName" >>, << "ApplicationReason" >> >>

\* google-apps-script.js, createHeaders: the same titles
createHeaders ==
  << << "SentAt" >>, << "EntityType" >>, << "CompanyName" >>,
     << "CompanyNameKana" >>,
     << "RepresentativeLastName" >>, << "RepresentativeFirstName" >>,
     << "RepresentativeLastNameKana" >>, << "RepresentativeFirstNameKana" >>,
     << "Address1PostalCode" >>, << "Address1Prefecture" >>,
     << "Address1City" >>, << "Address1Street" >>,
     << "Address2PostalCode" >>, << "Address2Prefecture" >>,
     << "Address2City" >>, << "Address2Street" >>,
     << "WorkerCount" >>, << "ApplicationMethod" >>,
     << "ContactLastName" >>, << "ContactFirstName" >>,
     << "ContactLastNameKana" >>, << "ContactFirstNameKana" >>,
     << "ContactPhone" >>, << "ContactEmail" >>,
     << "AgentName" >>, << "ApplicationReason" >> >>

\* mutant: the contact e-mail is written ahead of the contact phone
handleFormSubmission_EmailFirst(formData) ==
  << Now,
     formData.entityType,
     formData.company.name,
     formData.company.nameKana,
     formData.representative.lastName,
     formData.representative.firstName,
     formData.representative.lastNameKana,
     formData.representative.firstNameKana,
     formData.primaryAddress.postalCode,
     formData.primaryAddress.prefecture,
     formData.primaryAddress.city,
     formData.primaryAddress.street,
     OrEmpty(OptionalChain(formData.secondaryAddress, "postalCode")),
     OrEmpty(OptionalChain(formData.secondaryAddress, "prefecture")),
     OrEmpty(OptionalChain(formData.secondaryAddress, "city")),
     OrEmpty(OptionalChain(formData.secondaryAddress, "street")),
     formData.employeeCount,
     formData.applicationMethod,
     formData.contact.lastName,
     formData.contact.firstName,
     formData.contact.lastNameKana,
     formData.contact.firstNameKana,
     formData.contact.email,
     formData.contact.phone,
     OrEmpty(formData.agent),
     formData.applicationReason >>

\* Code.ts, handleFormSubmission: rowData
handleFormSubmission(formData) ==
  << Now,
     formData.entityType,
     formData.company.name,
     formData.company.nameKana,
     formData.representative.lastName,
     formData.representative.firstName,
     formData.representative.lastNameKana,
     formData.representative.firstNameKana,
     formData.primaryAddress.postalCode,
     formData.primaryAddress.prefecture,
     formData.primaryAddress.city,
     formData.primaryAddress.street,
     OrEmpty(OptionalChain(formData.secondaryAddress, "postalCode")),
     OrEmpty(OptionalChain(formData.secondaryAddress, "prefecture")),
     OrEmpty(OptionalChain(formData.secondaryAddress, "city")),
     OrEmpty(OptionalChain(formData.secondaryAddress, "street")),
     formData.employeeCount,
     formData.applicationMethod,
     formData.contact.lastName,
     formData.contact.firstName,
     formData.contact.lastNameKana,
     formData.contact.firstNameKana,
     formData.contact.phone,
     formData.contact.email,
     OrEmpty(formData.agent),
     formData.applicationReason >>

\* GoogleFormsService.transformToSheetRow
transformToSheetRow(d) ==
  << Now,
     d.entityType,
     d.company.name,
     d.company.nameKana,
     d.representative.lastName,
     d.representative.firstName,
     d.representative.lastNameKana,
     d.representative.firstNameKana,
     d.primaryAddress.postalCode,
     d.primaryAddress.prefecture,
     d.primaryAddress.city,
     d.primaryAddress.street,
     OrEmpty(OptionalChain(d.secondaryAddress, "postalCode")),
     OrEmpty(OptionalChain(d.secondaryAddress, "prefecture")),
     OrEmpty(OptionalChain(d.secondaryAddress, "city")),
     OrEmpty(OptionalChain(d.secondaryAddress, "street")),
     d.employeeCount,
     d.applicationMethod,
     d.contact.lastName,
     d.contact.firstName,
     d.contact.lastNameKana,
     d.contact.firstNameKana,
     d.contact.phone,
     d.contact.email,
     OrEmpty(d.agent),
     d.applicationReason >>

\* google-apps-script.js, doPost: rowData of a flat document
doPostRow(d) ==
  << Now,
     OrEmpty(Get(d, "entityType")),
     OrEmpty(Get(d, "companyName")),
     OrEmpty(Get(d, "companyNameKana")),
     OrEmpty(Get(d, "representativeLastName")),
     OrEmpty(Get(d, "representativeFirstName")),
     OrEmpty(Get(d, "representativeLastNameKana")),
     OrEmpty(Get(d, "representativeFirstNameKana")),
     OrEmpty(Get(d, "address1PostalCode")),
     OrEmpty(Get(d, "address1Prefecture")),
     OrEmpty(Get(d, "address1City")),
     OrEmpty(Get(d, "address1Street")),
     OrEmpty(Get(d, "address2PostalCode")),
     OrEmpty(Get(d, "address2Prefecture")),
     OrEmpty(Get(d, "address2City")),
     OrEmpty(Get(d, "address2Street")),
     OrEmpty(Get(d, "employeeCount")),
     OrEmpty(Get(d, "applicationMethod")),
     OrEmpty(Get(d, "contactLastName")),
     OrEmpty(Get(d, "contactFirstName")),
     OrEmpty(Get(d, "contactLastNameKana")),
     OrEmpty(Get(d, "contactFirstNameKana")),
     OrEmpty(Get(d, "contactPhone")),
     OrEmpty(Get(d, "contactEmail")),
     OrEmpty(Get(d, "agentName")),
     OrEmpty(Get(d, "applicationReason")) >>

\* const emailColumnIndex = 23 / data.data[23]
emailColumnIndex == 23

-----------------------------------------------------------------------------
(* Initial state *)

\* the sink has answered nothing yet
NoAnswer ==
  [ handler |-> "", error |-> FALSE, success |-> FALSE, exists |-> "none",
    rowNumber |-> 0, email |-> Undefined ]

NoResult ==
  [ fn |-> "", fetch |-> "none", type |-> "none", retryable |-> FALSE,
    responseId |-> Undefined, email |-> Undefined, duplicate |-> FALSE ]

\* useForm's defaultValues of ShadcnSubsidyForm
defaultValues ==
  [ entityType |-> Corporation,
    employeeCount |-> 2,
    applicationMethod |-> Paper,
    company |-> [ name |-> << >>, nameKana |-> << >> ],
    representative |-> [ lastName |-> << >>, firstName |-> << >>,
                         lastNameKana |-> << >>, firstNameKana |-> << >> ],
    primaryAddress |-> [ postalCode |-> << >>, prefecture |-> << >>,
                         city |-> << >>, street |-> << >> ],
    secondaryAddress |-> << [ postalCode |-> << >>, prefecture |-> << >>,
                              city |-> << >>, street |-> << >> ] >>,
    contact |-> [ lastName |-> << >>, firstName |-> << >>,
                  lastNameKana |-> << >>, firstNameKana |-> << >>,
                  email |-> << >>, phone |-> << >> ],
    agent |-> << >>,
    applicationReason |-> << >> ]

\* useMultiStepForm: the state the reducer starts in
initialState == [step |-> "companyInfo", data |-> << >>]

\* useReducer(formReducer, initialState), useState(false): nothing has been
\* dispatched, looked up or submitted
FreshHook ==
  /\ state = initialState
  /\ action = [type |-> ""]
  /\ previous = initialState
  /\ lookups = { }
  /\ latest = [block \in { "primary", "secondary" } |-> [code |-> << >>, n |-> 0]]
  /\ applied = [block \in { "primary", "secondary" } |-> { }]
  /\ isSubmitting = FALSE
  /\ inFlight = 0
  /\ attempts = 0
  /\ ended = ""
  /\ called = << >>

\* the native form as it is first rendered
FreshForm ==
  /\ component = "ShadcnSubsidyForm"
  /\ values = defaultValues
  /\ errors = { }
  /\ showConfirmation = FALSE
  /\ showCompletion = FALSE
  /\ isSubmitted = FALSE
  /\ submitted = << >>
  /\ lastEvent = ""
  /\ FreshHook

\* no page has been touched, nothing was read or printed
StartOfRun ==
  /\ exitCode = "none"
  /\ fn = ""
  /\ todo = << >>
  /\ ret = [ fn |-> "", status |-> "none", value |-> Undefined, error |-> NoError ]
  /\ good = { }
  /\ bad = { }
  /\ field = [ f \in Fields |-> NoText ]
  /\ writes = { }
  /\ menu = << >>
  /\ offered = FALSE
  /\ view = "entry"
  /\ pageText = NoText
  /\ token = NoText
  /\ calls = << >>
  /\ thrown = { }
  /\ caught = { }
  /\ fillOk = FALSE
  /\ idle = { }
  /\ clicks = [ b \in { "confirm", "completion" } |-> 0 ]
  /\ submitClickedIn = { }
  /\ acc = Null
  /\ userInput = NoText
  /\ printed = << >>
  /\ ncalls = 0

\* an empty sheet and no request so far
EmptySink ==
  /\ sheet = << >>
  /\ origin = << >>
  /\ answer = NoAnswer
  /\ result = NoResult
  /\ mails = { }
  /\ appends = 0
  /\ nreq = 0

\* a run of the form automation: the sink plays no part
Init ==
  /\ driver \in { "fillFormFromJson", "fillForm", "caller" }
  /\ \E inv \in IF driver = "fillFormFromJson"
                   THEN Invocations ELSE { << Undefined, NoFiles >> } :
       /\ argv = inv[1]
       /\ files = inv[2]
  /\ data \in CASE driver = "fillFormFromJson" -> Documents(files[JsonPath(argv)])
                [] driver = "fillForm" -> { testData }
                [] driver = "caller" -> CallerRecords
  /\ pc = CASE driver = "caller" -> "idle"
            [] driver = "fillForm" -> "launch"
            [] OTHER -> "readInput"
  /\ browser = IF driver = "caller" THEN "open" ELSE "none"
  /\ StartOfRun
  /\ script = "none"
  /\ sheetExists = FALSE
  /\ EmptySink
  /\ FreshForm

\* the native form's sink and its client: the spreadsheet is empty; Code.ts
\* looks its sheet up by name, google-apps-script.js takes the active sheet
SinkInit ==
  /\ driver = "none"
  /\ argv = Undefined
  /\ files = NoFiles
  /\ data = NoFormData
  /\ pc = "sink"
  /\ browser = "none"
  /\ StartOfRun
  /\ script \in { "Code.ts", "google-apps-script.js" }
  /\ sheetExists \in IF script = "Code.ts" THEN BOOLEAN ELSE { TRUE }
  /\ EmptySink
  /\ FreshForm

engineVars == << fn, todo, ret, good, bad, field, writes, menu, offered, view, pageText, token,
                 calls, thrown, caught, fillOk, idle, clicks,
                 submitClickedIn, acc >>

-----------------------------------------------------------------------------
(* Execution of an engine function: one awaited call per step *)

\* the driver's position and output once the engine function f has returned v
AfterReturn(f, v) ==
  CASE driver = "caller" -> << "idle", printed >>
    [] f = "submitFormData" -> << "finally", << "submitted" >> \o v >>
    [] OTHER -> << "gate", printed >>

\* the driver's position and output once an engine function has thrown e:
\* the drivers' catch block prints the error
AfterThrow(e) ==
  IF driver = "caller" THEN << "idle", printed >>
  ELSE << "finally", << "error", e >> >>

\* the value of the field op.field after the successful call op
NewValue(op) ==
  CASE op.api = "type" ->
         (IF field[op.field] = NoText THEN << >> ELSE field[op.field]) \o op.val
    [] op.api = "clickFirstHasText" -> menu[FirstHasText(menu, op.key, 1)]
    [] OTHER -> op.val

\* an awaited call succeeds
EngineOk ==
  /\ fn # ""
  /\ LET op == Head(todo)
         rest == SubSeq(todo, 2 + op.skip, Len(todo))
         done == rest = << >>
         value == IF op.api = "return"
                    THEN (IF acc = Null THEN << >> ELSE acc)
                    ELSE Undefined
         after == AfterReturn(fn, value)
     IN
     /\ CanSucceed(op)
     /\ calls' = IF op.api = "call" THEN Append(calls, op.sec) ELSE calls
     /\ good' = IF op.sel \in Inputs THEN good \cup { op.sel } ELSE good
     /\ field' = IF op.field # ""
                   THEN [ field EXCEPT ![op.field] = NewValue(op) ]
                   ELSE field
     /\ writes' = IF op.field # ""
                    THEN writes \cup { << op.field, NewValue(op) >> }
                    ELSE writes
     /\ menu' \in CASE IsReasonMenuWait(op) -> Menus
                    [] ClosesMenu(op) -> { << >> }
                    [] OTHER -> { menu }
     /\ offered' = IF IsReasonMenuWait(op)
                     THEN FirstHasText(menu', data.applicationReason, 1) # 0
                     ELSE offered
     /\ view' = CASE IsConfirmClick(op) -> "confirmation"
                  [] IsCompletionClick(op) -> "completion"
                  [] OTHER -> view
     /\ \E page \in IF IsCompletionClick(op) THEN CompletionPages
                                              ELSE { << pageText, token >> } :
          /\ pageText' = page[1]
          /\ token' = page[2]
     /\ clicks' = CASE IsConfirmClick(op) ->
                         [ clicks EXCEPT !["confirm"] = @ + 1 ]
                    [] IsCompletionClick(op) ->
                         [ clicks EXCEPT !["completion"] = @ + 1 ]
                    [] OTHER -> clicks
     /\ submitClickedIn' =
          IF IsCompletionClick(op)
            THEN submitClickedIn \cup { << fillOk, "confirmation" \in idle >> }
            ELSE submitClickedIn
     /\ idle' = IF op.api = "waitForLoadState" THEN idle \cup { view } ELSE idle
     /\ acc' = IF op.api = "textContent" THEN pageText ELSE acc
     /\ fillOk' = (fillOk \/ (done /\ fn \in { "fillFormData", "safeFormFill" }))
     /\ IF done
          THEN /\ fn' = ""
               /\ todo' = << >>
               /\ ret' = [ fn |-> fn, status |-> "returned",
                           value |-> IF fn = "safeFormFill"
                                       THEN << "success" >> ELSE value,
                           error |-> NoError ]
               /\ pc' = after[1]
               /\ printed' = after[2]
          ELSE /\ todo' = rest
               /\ UNCHANGED << fn, ret, pc, printed >>
     /\ UNCHANGED << thrown, caught, bad >>
  /\ UNCHANGED << driver, data, browser, userInput, ncalls, argv, files, exitCode >>
  /\ UNCHANGED << sinkVars, formVars >>

\* an awaited call inside a try block throws: the handler runs
EngineCatch ==
  /\ fn # ""
  /\ LET op == Head(todo)
     IN  /\ CanThrow(op)
         /\ op.catch > 0
         /\ todo' = SubSeq(todo, 1 + op.catch, Len(todo))
         /\ caught' = caught \cup { op.sec }
         /\ bad' = IF op.sel \in Inputs THEN bad \cup { op.sel } ELSE bad
         /\ offered' = IF IsReasonMenuWait(op) THEN FALSE ELSE offered
  /\ UNCHANGED << driver, data, pc, browser, fn, ret, good, field, writes, menu,
                  view, pageText, token, calls, thrown, fillOk, idle,
                  clicks, submitClickedIn, acc, userInput, printed, ncalls,
                  argv, files, exitCode >>
  /\ UNCHANGED << sinkVars, formVars >>

\* an awaited call outside any try block throws: the engine function throws;
\* safeFormFill catches what fillFormData throws and returns it
EngineThrow ==
  /\ fn # ""
  /\ LET op == Head(todo)
         e == ErrorOf(op)
         after == AfterThrow(e)
     IN  /\ CanThrow(op)
         /\ op.catch = 0
         /\ thrown' = thrown \cup
              { << IF fn = "safeFormFill" THEN "fillFormData" ELSE fn, op.sec, e >> }
         /\ ret' = IF fn = "safeFormFill"
                     THEN [ fn |-> fn, status |-> "returned",
                            value |-> << "failure" >>, error |-> e ]
                     ELSE [ fn |-> fn, status |-> "thrown",
                            value |-> Undefined, error |-> e ]
         /\ fn' = ""
         /\ todo' = << >>
         /\ pc' = after[1]
         /\ printed' = after[2]
         /\ bad' = IF op.sel \in Inputs THEN bad \cup { op.sel } ELSE bad
  /\ UNCHANGED << driver, data, browser, good, field, writes, menu, offered, view,
                  pageText, token, calls, caught, fillOk, idle, clicks,
                  submitClickedIn, acc, userInput, ncalls, argv, files, exitCode >>
  /\ UNCHANGED << sinkVars, formVars >>

-----------------------------------------------------------------------------
(* The drivers: main of fillFormFromJson and main of fillForm *)

driverVars == << driver, data, userInput, ncalls, argv, files >>

\* the driver calls the engine function f
Start(f) ==
  /\ fn' = f
  /\ todo' = Program(f, data)
  /\ acc' = Null

\* the exit status once main has moved to the position p: a rejection of
\* main is handled by main().catch(console.error), the process ends normally
ExitCodeAt(p) == IF p = "rejected" THEN "0" ELSE exitCode

\* mutant: a missing file is left to readFileSync, which throws
ReadInputOutcome_NoExistsCheck(file) ==
  CASE file \in { "absent", "unparseable" } ->
         << "rejected", << "error", << "readInput", file, << >> >> >>, "0" >>
    [] OTHER -> << "launch", << "summary" >>, "none" >>

\* lines 11-23 of fillFormFromJson on the file at jsonPath:
\* <<position of main, what it printed, exit status>>
ReadInputOutcome(file) ==
  CASE file = "absent" -> << "exited", << "notFound" >>, "1" >>
    [] file = "unparseable" ->
         << "rejected", << "error", << "JSON.parse", "", << >> >> >>, "0" >>
    [] OTHER -> << "launch", << "summary" >>, "none" >>

\* fillFormFromJson: existsSync, process.exit(1), JSON.parse, the summary
ReadInput ==
  /\ pc = "readInput"
  /\ LET out == ReadInputOutcome(files[JsonPath(argv)])
     IN  /\ pc' = out[1]
         /\ printed' = out[2]
         /\ exitCode' = out[3]
  /\ UNCHANGED << engineVars, driverVars, browser >>
  /\ UNCHANGED << sinkVars, formVars >>

\* chromium.launch; when it rejects, main rejects and nothing was acquired
Launch ==
  /\ pc = "launch"
  /\ \/ browser' = "open" /\ pc' = "newContext"
     \/ browser' = browser /\ pc' = "rejected"
  /\ exitCode' = ExitCodeAt(pc')
  /\ UNCHANGED << engineVars, driverVars, printed >>
  /\ UNCHANGED << sinkVars, formVars >>

\* browser.newContext, ahead of the try block: when it rejects, main rejects
NewContext ==
  /\ pc = "newContext"
  /\ pc' \in { "newPage", "rejected" }
  /\ exitCode' = ExitCodeAt(pc')
  /\ UNCHANGED << engineVars, driverVars, browser, printed >>
  /\ UNCHANGED << sinkVars, formVars >>

\* context.newPage, ahead of the try block: when it rejects, main rejects
NewPage ==
  /\ pc = "newPage"
  /\ pc' \in { "goto", "rejected" }
  /\ exitCode' = ExitCodeAt(pc')
  /\ UNCHANGED << engineVars, driverVars, browser, printed >>
  /\ UNCHANGED << sinkVars, formVars >>

\* page.goto, first statement of the try block
Goto ==
  /\ pc = "goto"
  /\ \/ pc' = "waitAnchor" /\ printed' = printed
     \/ pc' = "finally" /\ printed' = << "error", << "goto", "", << >> >> >>
  /\ UNCHANGED << engineVars, driverVars, browser, exitCode >>
  /\ UNCHANGED << sinkVars, formVars >>

\* mutant: the fill starts although the anchor field did not appear
WaitAnchor_ContinuesOnTimeout ==
  /\ pc = "waitAnchor"
  /\ \/ /\ pc' = "fill"
        /\ good' = good \cup { "company_name" }
        /\ Start("fillFormData")
        /\ printed' = printed
     \/ /\ pc' = "fill"
        /\ printed' = << "error", << "waitForSelector", "company_name", << >> >> >>
        /\ Start("fillFormData")
        /\ UNCHANGED good
  /\ UNCHANGED << ret, bad, field, writes, menu, offered, view, pageText, token, calls,
                  thrown, caught, fillOk, idle, clicks, submitClickedIn,
                  driverVars, browser, exitCode >>
  /\ UNCHANGED << sinkVars, formVars >>

\* page.waitForSelector of the anchor field, then the call of fillFormData
WaitAnchor ==
  /\ pc = "waitAnchor"
  /\ \/ /\ pc' = "fill"
        /\ good' = good \cup { "company_name" }
        /\ Start("fillFormData")
        /\ printed' = printed
     \/ /\ pc' = "finally"
        /\ printed' = << "error", << "waitForSelector", "company_name", << >> >> >>
        /\ UNCHANGED << good, fn, todo, acc >>
  /\ UNCHANGED << ret, bad, field, writes, menu, offered, view, pageText, token, calls,
                  thrown, caught, fillOk, idle, clicks, submitClickedIn,
                  driverVars, browser, exitCode >>
  /\ UNCHANGED << sinkVars, formVars >>

\* fillFormFromJson: the operator's line decides between submit and cancel
Gate ==
  /\ pc = "gate"
  /\ driver = "fillFormFromJson"
  /\ \E input \in OperatorInputs :
       /\ userInput' = input
       /\ IF Confirms(input)
            THEN /\ pc' = "submit"
                 /\ Start("submitFormData")
                 /\ printed' = printed
            ELSE /\ pc' = "finally"
                 /\ printed' = << "cancelled" >>
                 /\ UNCHANGED << fn, todo, acc >>
  /\ UNCHANGED << ret, good, bad, field, writes, menu, offered, view, pageText, token, calls,
                  thrown, caught, fillOk, idle, clicks, submitClickedIn,
                  driver, data, ncalls, browser, argv, files, exitCode >>
  /\ UNCHANGED << sinkVars, formVars >>

\* fillForm: any line from the operator ends the run
GateEnter ==
  /\ pc = "gate"
  /\ driver = "fillForm"
  /\ \E input \in OperatorInputs : userInput' = input
  /\ pc' = "finally"
  /\ UNCHANGED << engineVars, driver, data, ncalls, browser, printed, argv, files,
                  exitCode >>
  /\ UNCHANGED << sinkVars, formVars >>

\* finally: browser.close(); main returns and the process ends normally
Finally ==
  /\ pc = "finally"
  /\ browser' = "closed"
  /\ pc' = "done"
  /\ exitCode' = "0"
  /\ UNCHANGED << engineVars, driverVars, printed >>
  /\ UNCHANGED << sinkVars, formVars >>

\* a caller that holds a page calls the engine functions in any order
CallEngine ==
  /\ pc = "idle"
  /\ ncalls < MaxCalls
  /\ \E f \in EngineFunctions : Start(f)
  /\ ncalls' = ncalls + 1
  /\ pc' = "running"
  /\ UNCHANGED << ret, good, bad, field, writes, menu, offered, view, pageText, token, calls,
                  thrown, caught, fillOk, idle, clicks, submitClickedIn,
                  driver, data, userInput, browser, printed, argv, files, exitCode >>
  /\ UNCHANGED << sinkVars, formVars >>

Next ==
  \/ ReadInput
  \/ Launch \/ NewContext \/ NewPage \/ Goto \/ WaitAnchor
  \/ EngineOk \/ EngineCatch \/ EngineThrow
  \/ Gate \/ GateEnter \/ Finally \/ CallEngine

Spec == Init /\ [][Next]_vars

\* A call into Playwright ends: each awaited call either resolves or rejects
\* when its timeout expires, and launch, newContext, newPage, goto and close
\* end likewise.  The operator's line at the gate is awaited with
\* process.stdin.once inside a bare Promise: nothing makes that wait end, so
\* no fairness is assumed for Gate and GateEnter (nor for a caller's calls).
PlaywrightStep ==
  \/ ReadInput \/ Launch \/ NewContext \/ NewPage \/ Goto \/ WaitAnchor
  \/ EngineOk \/ EngineCatch \/ EngineThrow \/ Finally

LiveSpec == Spec /\ WF_vars(PlaywrightStep)

-----------------------------------------------------------------------------
(* The submission sink: handlers.  A SpreadsheetApp call may throw; fault     *)
(* names the call of a request that does: "open" (openById), "header" and     *)
(* "style" (appendRow of the header row, its formatting), "row" (appendRow    *)
(* of the data), "mail" (MailApp.sendEmail, which the scripts swallow).       *)

Faults == { "none", "open", "header", "style", "row", "mail" }

\* JavaScript truthiness of a string or undefined
IsTruthy(v) == v # Undefined /\ v # << >>

\* rows that a client of the appendRow action sends: 26 cells with the e-mail
\* at index 23, or a single cell
RawRows ==
  { [ i \in 1..26 |-> IF i = emailColumnIndex + 1 THEN e ELSE << "cell" >> ] :
      e \in Emails }
    \cup { << << "cell" >> >> }

\* e-mail addresses asked for: those submitted, one never submitted and the
\* title of the e-mail column
Queries == Emails \cup { << "c@x" >>, << "ContactEmail" >> }

\* createResponse({ error }, 500) and the error answer of google-apps-script.js
ErrorAnswer(handler) == [ NoAnswer EXCEPT !.handler = handler, !.error = TRUE ]

\* where a request that appends a row throws, "" when it does not
FailsAt(fault) ==
  CASE fault = "open" -> "open"
    [] ~sheetExists -> "null"
    [] Len(sheet) = 0 /\ fault \in { "header", "style" } -> fault
    [] fault = "row" -> "row"
    [] OTHER -> ""

\* mutant: the header row is appended while the sheet has at most one row
WithHeader_UpToOneRow(titles) ==
  IF Len(sheet) <= 1 THEN Append(sheet, titles) ELSE sheet

\* the sheet after the header step of a request: the header row is appended
\* when sheet.getLastRow() === 0
WithHeader(titles) == IF Len(sheet) = 0 THEN << titles >> ELSE sheet
OriginWithHeader ==
  IF Len(sheet) = 0 THEN << [ by |-> "header", form |-> << >> ] >> ELSE origin

\* the rows written by a request that appends row under the given fault;
\* by and form: the handler that built the row and the document it built it
\* from (<< >> when the client sent the row)
AppendRows(titles, row, by, form, fault) ==
  LET at == FailsAt(fault)
  IN  /\ sheet' = CASE at \in { "open", "null", "header" } -> sheet
                    [] at \in { "style", "row" } -> WithHeader(titles)
                    [] OTHER -> Append(WithHeader(titles), row)
      /\ origin' = CASE at \in { "open", "null", "header" } -> origin
                     [] at \in { "style", "row" } -> OriginWithHeader
                     [] OTHER -> Append(OriginWithHeader,
                                        [ by |-> by, form |-> form ])
      /\ sheetExists' = (sheetExists \/ fault # "open")
      /\ appends' = IF at = "" THEN appends + 1 ELSE appends

\* Code.ts, handleAppendRow(data) with data.data = row
handleAppendRow(row, sendEmail, by, form, fault) ==
  /\ AppendRows(headers, row, by, form, fault)
  /\ mails' = IF FailsAt(fault) = "" /\ sendEmail
                  /\ IsTruthy(Index(row, emailColumnIndex)) /\ fault # "mail"
                 THEN mails \cup { Index(row, emailColumnIndex) }
                 ELSE mails
  /\ answer' = IF FailsAt(fault) = ""
                  THEN [ NoAnswer EXCEPT !.handler = "handleAppendRow",
                                         !.success = TRUE,
                                         !.rowNumber = Len(sheet') ]
                  ELSE ErrorAnswer("handleAppendRow")

\* google-apps-script.js, doPost(e) with the parsed document d
doPost(d, fault) ==
  /\ AppendRows(createHeaders, doPostRow(d), "doPost", << d >>, fault)
  /\ mails' = IF FailsAt(fault) = "" /\ IsTruthy(Get(d, "contactEmail"))
                  /\ fault # "mail"
                 THEN mails \cup { d.contactEmail }
                 ELSE mails
  /\ answer' = IF FailsAt(fault) = ""
                  THEN [ NoAnswer EXCEPT !.handler = "doPost", !.success = TRUE ]
                  ELSE ErrorAnswer("doPost")

\* the rows i (JavaScript index) of the sheet whose cell at column col equals
\* email, for the rows from index first on
RowsWithEmail(first, col, email) ==
  { i \in first..(Len(sheet) - 1) : Index(sheet[i + 1], col) = email }

\* mutant: the scan starts at the header row
handleCheckEmail_FromHeader(email, fault) ==
  CASE fault = "open" -> ErrorAnswer("handleCheckEmail")
    [] OTHER ->
         [ NoAnswer EXCEPT
             !.handler = "handleCheckEmail",
             !.email = email,
             !.exists = IF RowsWithEmail(0, emailColumnIndex, email) # { }
                          THEN "true" ELSE "false" ]

\* Code.ts, handleCheckEmail(email): the answer
handleCheckEmail(email, fault) ==
  CASE fault = "open" -> ErrorAnswer("handleCheckEmail")
    [] ~sheetExists \/ Len(sheet) <= 1 ->
         [ NoAnswer EXCEPT !.handler = "handleCheckEmail", !.email = email,
                           !.exists = "false" ]
    [] OTHER ->
         [ NoAnswer EXCEPT
             !.handler = "handleCheckEmail",
             !.email = email,
             !.exists = IF RowsWithEmail(1, emailColumnIndex, email) # { }
                          THEN "true" ELSE "false" ]

\* Array.prototype.indexOf on a row, -1 when the value is not in it; the
\* data range of an empty sheet is one empty cell
IndexOf(row, v) ==
  IF \E i \in DOMAIN row : row[i] = v
    THEN (CHOOSE i \in DOMAIN row :
            row[i] = v /\ \A j \in DOMAIN row : row[j] = v => i <= j) - 1
    ELSE 0 - 1

getDataRange == IF Len(sheet) = 0 THEN << << << >> >> >> ELSE sheet

\* google-apps-script.js, checkDuplicateEmail(email): getEntriesByEmail finds
\* the column by its title and scans the rows below the first; it is not
\* wrapped in a try block
checkDuplicateEmail(email, fault) ==
  CASE fault = "open" -> ErrorAnswer("checkDuplicateEmail")
    [] OTHER ->
         LET emailColumn == IndexOf(getDataRange[1], << "ContactEmail" >>)
         IN  [ NoAnswer EXCEPT
                 !.handler = "checkDuplicateEmail",
                 !.email = email,
                 !.exists = IF RowsWithEmail(1, emailColumn, email) # { }
                              THEN "true" ELSE "false" ]

-----------------------------------------------------------------------------
(* The submission sink: requests *)

automationVars == << driver, data, pc, browser, engineVars, userInput, printed,
                     ncalls, argv, files, exitCode >>

FetchOutcomes == { "throws", "resolves" }

\* crypto.randomUUID()
randomUUID == << "uuid" >>

\* mutant: the service reads the sink's answer
GoogleFormsService_submitFormData_ReadsAnswer(fetch, ans) ==
  IF fetch = "resolves" /\ ans.success
    THEN [ NoResult EXCEPT !.fn = "submitFormData", !.fetch = fetch,
                           !.type = "success", !.responseId = randomUUID ]
    ELSE [ NoResult EXCEPT !.fn = "submitFormData", !.fetch = fetch,
                           !.type = "error", !.retryable = fetch = "throws" ]

\* GoogleFormsService.submitFormData: what it returns when the fetch ended
\* as given and the sink (if reached) answered ans; the response of a
\* no-cors request is opaque and is not read
GoogleFormsService_submitFormData(fetch, ans) ==
  IF fetch = "resolves"
    THEN [ NoResult EXCEPT !.fn = "submitFormData", !.fetch = fetch,
                           !.type = "success", !.responseId = randomUUID ]
    ELSE [ NoResult EXCEPT !.fn = "submitFormData", !.fetch = fetch,
                           !.type = "error", !.retryable = TRUE ]

\* GoogleFormsService.checkDuplicateEmail: result.exists || false, and false
\* when the request or the reading of its answer throws
GoogleFormsService_checkDuplicateEmail(fetch, ans) ==
  [ NoResult EXCEPT !.fn = "checkDuplicateEmail", !.fetch = fetch,
                    !.type = IF fetch = "resolves" THEN "success" ELSE "error",
                    !.email = IF fetch = "resolves" THEN ans.email ELSE Undefined,
                    !.duplicate = (fetch = "resolves" /\ ans.exists = "true") ]

\* the native form submits a record: GoogleFormsService.submitFormData posts
\* it, doPost of Code.ts hands it to handleFormSubmission
ClientSubmit ==
  /\ script = "Code.ts"
  /\ nreq < MaxRequests
  /\ \E r \in PostedSubmissions, fetch \in FetchOutcomes, fault \in Faults :
       /\ IF fetch = "resolves"
            THEN handleAppendRow(handleFormSubmission(r), TRUE,
                                 "handleFormSubmission", << r >>, fault)
            ELSE UNCHANGED << sheetExists, sheet, origin, answer, mails, appends >>
       /\ result' = GoogleFormsService_submitFormData(fetch, answer')
  /\ nreq' = nreq + 1
  /\ UNCHANGED << automationVars, formVars, script >>

\* a client posts { action: 'appendRow', data, sendEmail } to Code.ts
ActionAppendRow ==
  /\ script = "Code.ts"
  /\ nreq < MaxRequests
  /\ \E row \in RawRows, sendEmail \in BOOLEAN, fault \in Faults :
       handleAppendRow(row, sendEmail, "client", << >>, fault)
  /\ nreq' = nreq + 1
  /\ UNCHANGED << automationVars, formVars, script, result >>

\* a client posts an unknown action, or a document with neither action nor
\* entityType, to Code.ts: createResponse({ error }, 400)
InvalidRequest ==
  /\ script = "Code.ts"
  /\ nreq < MaxRequests
  /\ answer' = ErrorAnswer("doPost")
  /\ nreq' = nreq + 1
  /\ UNCHANGED << automationVars, formVars, script, sheetExists, sheet, origin, result,
                  mails, appends >>

\* the static page posts a flat document to google-apps-script.js
StaticPagePost ==
  /\ script = "google-apps-script.js"
  /\ nreq < MaxRequests
  /\ \E d \in FlatSubmissions, fault \in Faults : doPost(d, fault)
  /\ nreq' = nreq + 1
  /\ UNCHANGED << automationVars, formVars, script, result >>

\* the native form asks for a duplicate: GoogleFormsService.checkDuplicateEmail
\* gets ?action=checkEmail, doGet of Code.ts hands it to handleCheckEmail
ClientCheck ==
  /\ script = "Code.ts"
  /\ nreq < MaxRequests
  /\ \E e \in Queries, fetch \in FetchOutcomes, fault \in { "none", "open" } :
       /\ answer' = IF fetch = "resolves" THEN handleCheckEmail(e, fault)
                                          ELSE answer
       /\ result' = GoogleFormsService_checkDuplicateEmail(fetch, answer')
  /\ nreq' = nreq + 1
  /\ UNCHANGED << automationVars, formVars, script, sheetExists, sheet, origin, mails,
                  appends >>

\* checkDuplicateEmail(email) of google-apps-script.js is run
ScriptCheck ==
  /\ script = "google-apps-script.js"
  /\ nreq < MaxRequests
  /\ \E e \in Queries, fault \in { "none", "open" } :
       answer' = checkDuplicateEmail(e, fault)
  /\ nreq' = nreq + 1
  /\ UNCHANGED << automationVars, formVars, script, sheetExists, sheet, origin, result,
                  mails, appends >>

SinkNext ==
  \/ ClientSubmit \/ ActionAppendRow \/ InvalidRequest \/ StaticPagePost
  \/ ClientCheck \/ ScriptCheck

SinkSpec == SinkInit /\ [][SinkNext]_vars

-----------------------------------------------------------------------------
(* Vocabulary of the claims *)

\* the ten section fillers in their declared order
AllSections ==
  << "selectEntityType", "fillCompanyInfo", "fillRepresentativeInfo",
     "fillCompanyAddress1", "fillCompanyAddress2", "fillWorkerCount",
     "selectApplicationMethod", "fillContactInfo", "fillAgentName",
     "selectApplicationReason" >>

\* the fillers a fill of d has to invoke: the two optional ones only for
\* a record that has a secondary postal code, city or street, or an agent
Wanted(d, sec) ==
  CASE sec = "fillCompanyAddress2" ->
         d.address2PostalCode # << >> \/ d.address2City # << >>
           \/ d.address2Street # << >>
    [] sec = "fillAgentName" -> d.agentName # << >>
    [] OTHER -> TRUE

ExpectedCalls(d) ==
  LET Keep(sec) == Wanted(d, sec) IN SelectSeq(AllSections, Keep)

IsPrefix(s, t) == Len(s) <= Len(t) /\ SubSeq(t, 1, Len(s)) = s

LastCall == calls[Len(calls)]

InDriver == driver # "caller"

\* a fill has ended in failure and the failure is in the caller's hands
FillFailure ==
  /\ fn = ""
  /\ \/ ret.fn = "fillFormData" /\ ret.status = "thrown"
     \/ ret.fn = "safeFormFill" /\ ret.value = << "failure" >>

-----------------------------------------------------------------------------
(* C1 *)

\* C1 as stated: a fill that succeeds has invoked each of the ten section
\* fillers exactly once, in the declared order.
C1_EveryFillerOnce == (InDriver /\ fillOk) => calls = AllSections

\* C1, amended: the fillers are invoked in the declared order, each at most
\* once and only while no earlier one has failed; a fill that succeeds has
\* invoked the eight mandatory fillers exactly once, the address-2 filler
\* exactly when the secondary postal code, city or street is non-empty and
\* the agent filler exactly when the agent name is non-empty.
C1_FillersInOrder ==
  InDriver =>
    /\ IsPrefix(calls, ExpectedCalls(data))
    /\ fillOk => calls = ExpectedCalls(data)
    /\ \A t \in thrown : t[1] = "fillFormData" => (fn = "" /\ t[2] = LastCall)

\* a fill has succeeded for a record without secondary address and agent
C1_Witness ==
  /\ InDriver /\ fillOk
  /\ Len(calls) = 8
  /\ data.address2Prefecture = << >>

-----------------------------------------------------------------------------
(* C2 *)

\* the operator's line holds exactly one character that is no whitespace,
\* and it is y or Y
SaysYes(input) ==
  LET NotSpace(c) == c \notin { " ", "\n" }
  IN  SelectSeq(input, NotSpace) \in { << "y" >>, << "Y" >> }

SubmitCalled == fn = "submitFormData" \/ ret.fn = "submitFormData"

\* C2 as stated: after any operator input other than y, submitFormData is
\* not called and no button is clicked.
C2_OnlyLiteralY ==
  (driver = "fillFormFromJson" /\ userInput # NoText /\ userInput # << "y" >>)
    => (~SubmitCalled /\ clicks["confirm"] = 0 /\ clicks["completion"] = 0)

\* C2, amended: the input is trimmed and lower-cased before the comparison:
\* for every operator input whose trimmed, lower-cased form is not y,
\* submitFormData is never called, no button is clicked and the browser is
\* closed; exactly the inputs whose trimmed, lower-cased form is y (y, Y,
\* with surrounding whitespace) lead to a submit.
C2_GateNormalised ==
  (driver = "fillFormFromJson" /\ userInput # NoText) =>
    IF SaysYes(userInput)
      THEN SubmitCalled
      ELSE /\ ~SubmitCalled
           /\ clicks["confirm"] = 0 /\ clicks["completion"] = 0
           /\ pc \in { "finally", "done" }
           /\ pc = "done" => browser = "closed"

\* the operator declined and the run has ended
C2_Witness ==
  /\ driver = "fillFormFromJson"
  /\ userInput = << "n", "\n" >>
  /\ pc = "done" /\ browser = "closed" /\ printed = << "cancelled" >>

-----------------------------------------------------------------------------
(* C3 *)

\* C3: once a browser has been launched, every run that has ended has
\* closed it.
C3_SessionClosed ==
  (InDriver /\ pc \in { "done", "rejected" } /\ browser # "none")
    => browser = "closed"

-----------------------------------------------------------------------------
(* C4 *)

NoDuplicates(s) == \A i, j \in 1..Len(s) : s[i] = s[j] => i = j

\* C4: within one run of a driver nothing is retried: once an engine
\* function has thrown, no engine function runs again, no filler is invoked
\* twice, and the final submit button is clicked at most once.
C4_NoRetry ==
  InDriver =>
    /\ clicks["completion"] <= 1
    /\ NoDuplicates(calls)
    /\ Cardinality(thrown) <= 1
    /\ thrown # { } => (fn = "" /\ pc \in { "finally", "done" })

\* the submit failed after the final click, and the run ended without a
\* second attempt
C4_Witness ==
  /\ driver = "fillFormFromJson" /\ pc = "done"
  /\ clicks["completion"] = 1
  /\ \E t \in thrown : t[1] = "submitFormData"

-----------------------------------------------------------------------------
(* C5 *)

-----------------------------------------------------------------------------
(* C6 *)

Address2Writes == { w \in writes : w[1] \in Address2Fields }

\* the non-empty subfields of the secondary address, as writes
Address2NonEmpty(d) ==
  { w \in { << "5.zipcode", d.address2PostalCode >>,
            << "5.prefecture", d.address2Prefecture >>,
            << "5.address1", d.address2City >>,
            << "5.address2", d.address2Street >> } : w[2] # << >> }

\* C6: a fill that succeeds has written exactly the non-empty subfields of
\* the secondary address (none when all four are empty) and no empty string.
C6_Address2ExactlyNonEmpty ==
  (InDriver /\ fillOk) => Address2Writes = Address2NonEmpty(data)

-----------------------------------------------------------------------------
(* C7 *)

-----------------------------------------------------------------------------
(* C8 *)

\* C8: when the page shows the marker, submitFormData returns exactly the
\* token.
C8_ReturnsToken ==
  (fn = "" /\ ret.fn = "submitFormData" /\ ret.status = "returned"
     /\ token # NoText)
    => ret.value = token

-----------------------------------------------------------------------------
(* C9 *)

\* the error of the failed receipt lookup
ReceiptNotFound == << "textContent", "receipt-marker", << >> >>

SubmitEnded == InDriver /\ fn = "" /\ ret.fn = "submitFormData"

-----------------------------------------------------------------------------
(* C10 *)

\* C10 as stated: whatever order the engine functions are called in, the
\* final submit button is clicked only after a successful fill and after
\* the confirm click's network-idle wait has returned.
C10_SubmitOnlyWhenConfirmed ==
  \A p \in submitClickedIn : p = << TRUE, TRUE >>

\* C10, amended: whatever order the engine functions are called in, the
\* final submit button is clicked only on the confirmation view, after a
\* click of the confirm button whose network-idle wait has returned; that a
\* successful fill came first is not enforced by the engine functions, it
\* holds in the runs of the drivers, which call submitFormData only after
\* fillFormData has returned.
C10_SubmitAfterConfirmIdle ==
  /\ \A p \in submitClickedIn : p[2]
  /\ InDriver => \A p \in submitClickedIn : p[1]
  /\ clicks["completion"] <= clicks["confirm"]
  /\ view = "completion" => "confirmation" \in idle

\* a caller has submitted a page that was never filled
C10_Witness ==
  /\ driver = "caller"
  /\ ~fillOk /\ calls = << >>
  /\ submitClickedIn = { << FALSE, TRUE >> }
  /\ view = "completion"

-----------------------------------------------------------------------------
(* C11 *)

\* the error of a prefecture menu that did not become visible in time
MenuTimeout == << "waitForSelector", ".v-menu__content:visible", << >> >>

AddressFillers == { "fillCompanyAddress1", "fillCompanyAddress2" }

\* the prefecture, city and street fields of an address filler
AfterMenuFields(sec) ==
  IF sec = "fillCompanyAddress1"
    THEN { "4.prefecture", "4.address1", "4.address2" }
    ELSE { "5.prefecture", "5.address1", "5.address2" }

\* C11: in a driver run no address filler swallows an error, and when the
\* prefecture menu of an address block did not become visible within its
\* bound the fill has failed with that timeout: no option was clicked (the
\* prefecture is unset), the city and street of the block were not written,
\* no later filler ran and fillFormData threw.
C11_MenuTimeoutFailsFill ==
  InDriver =>
    /\ caught \cap AddressFillers = { }
    /\ \A sec \in AddressFillers :
         << "fillFormData", sec, MenuTimeout >> \in thrown =>
           /\ \A f \in AfterMenuFields(sec) :
                /\ field[f] = NoText
                /\ \A w \in writes : w[1] # f
           /\ LastCall = sec
           /\ ~fillOk
           /\ ret.fn = "fillFormData" /\ ret.status = "thrown"
           /\ ret.error = MenuTimeout

\* the menu of the secondary address timed out after its postal code was
\* written, and the run has ended
C11_Witness ==
  /\ driver = "fillFormFromJson"
  /\ pc = "done"
  /\ << "fillFormData", "fillCompanyAddress2", MenuTimeout >> \in thrown
  /\ field["5.zipcode"] = << "address2PostalCode" >>
  /\ field["5.address1"] = NoText

-----------------------------------------------------------------------------
(* C12 *)

\* main has run to its end (normally or by rejecting)
Terminated == pc \in { "done", "rejected", "exited" }

\* C12: every run of a driver eventually terminates, whatever the page and
\* the operator do, because no wait is unbounded.
C12_EveryRunTerminates == InDriver => <>Terminated

-----------------------------------------------------------------------------
(* C13 *)

\* the file that fillFormFromJson reads
JsonFile == files[JsonPath(argv)]

\* C13: when the file named on the command line, or the default file when
\* none is named, does not exist, fillFormFromJson never launches a browser
\* and runs no filler, and it has ended only by printing the not-found
\* message and exiting with status 1.
C13_MissingFileExitsOne ==
  (driver = "fillFormFromJson" /\ JsonFile = "absent") =>
    /\ browser = "none"
    /\ calls = << >>
    /\ pc \in { "readInput", "exited" }
    /\ pc = "readInput" => exitCode = "none"
    /\ pc = "exited" => exitCode = "1" /\ printed = << "notFound" >>

\* the file named on the command line is missing while the default file
\* exists: the process has exited with status 1
C13_Witness ==
  /\ driver = "fillFormFromJson"
  /\ argv = << "in.json" >>
  /\ files[argv] = "absent"
  /\ files[DefaultPath] = "valid"
  /\ pc = "exited"
  /\ exitCode = "1"

-----------------------------------------------------------------------------
(* C14 *)

\* C14: when the input file exists but is not JSON or is not a FormData
\* document, fillFormFromJson opens no browser and runs no filler, and it
\* ends with a non-zero exit status.
C14_MalformedFailsEarly ==
  (driver = "fillFormFromJson" /\ JsonFile \in { "unparseable", "wrongShape" }) =>
    /\ browser = "none"
    /\ calls = << >>
    /\ Terminated => exitCode \notin { "none", "0" }

-----------------------------------------------------------------------------
(* C15 *)

\* the reason filler ended on its type-to-filter path: an item was clicked
ReasonItemClicked ==
  /\ InDriver
  /\ LastCall = "selectApplicationReason"
  /\ fillOk
  /\ "selectApplicationReason" \notin caught

\* C15: on the type-to-filter path exactly the first three characters of the
\* target reason were typed, and the item clicked is the one whose text
\* equals the target reason: the field holds the target reason.
C15_ClicksExactItem ==
  (Len(calls) > 0 /\ ReasonItemClicked) =>
    /\ << "#label23", substring(data.applicationReason, 3) >> \in writes
    /\ field["#label23"] = data.applicationReason

-----------------------------------------------------------------------------
(* C16 *)

\* the columns of a row in their fixed order, by title
ColumnOrder ==
  << "SentAt", "EntityType", "CompanyName", "CompanyNameKana",
     "RepresentativeLastName", "RepresentativeFirstName",
     "RepresentativeLastNameKana", "RepresentativeFirstNameKana",
     "Address1PostalCode", "Address1Prefecture", "Address1City",
     "Address1Street",
     "Address2PostalCode", "Address2Prefecture", "Address2City",
     "Address2Street",
     "WorkerCount", "ApplicationMethod",
     "ContactLastName", "ContactFirstName", "ContactLastNameKana",
     "ContactFirstNameKana", "ContactPhone", "ContactEmail",
     "AgentName", "ApplicationReason" >>

\* a subfield of the secondary address, the empty string when it is absent
Secondary(r, key) ==
  IF r.secondaryAddress = << >> \/ key \notin DOMAIN r.secondaryAddress[1]
    THEN << >>
    ELSE r.secondaryAddress[1][key]

\* what the column of the given title holds for the record r
ColumnValue(r, title) ==
  CASE title = "SentAt" -> Now
    [] title = "EntityType" -> r.entityType
    [] title = "CompanyName" -> r.company.name
    [] title = "CompanyNameKana" -> r.company.nameKana
    [] title = "RepresentativeLastName" -> r.representative.lastName
    [] title = "RepresentativeFirstName" -> r.representative.firstName
    [] title = "RepresentativeLastNameKana" -> r.representative.lastNameKana
    [] title = "RepresentativeFirstNameKana" -> r.representative.firstNameKana
    [] title = "Address1PostalCode" -> r.primaryAddress.postalCode
    [] title = "Address1Prefecture" -> r.primaryAddress.prefecture
    [] title = "Address1City" -> r.primaryAddress.city
    [] title = "Address1Street" -> r.primaryAddress.street
    [] title = "Address2PostalCode" -> Secondary(r, "postalCode")
    [] title = "Address2Prefecture" -> Secondary(r, "prefecture")
    [] title = "Address2City" -> Secondary(r, "city")
    [] title = "Address2Street" -> Secondary(r, "street")
    [] title = "WorkerCount" -> r.employeeCount
    [] title = "ApplicationMethod" -> r.applicationMethod
    [] title = "ContactLastName" -> r.contact.lastName
    [] title = "ContactFirstName" -> r.contact.firstName
    [] title = "ContactLastNameKana" -> r.contact.lastNameKana
    [] title = "ContactFirstNameKana" -> r.contact.firstNameKana
    [] title = "ContactPhone" -> r.contact.phone
    [] title = "ContactEmail" -> r.contact.email
    [] title = "AgentName" -> IF r.agent = Undefined THEN << >> ELSE r.agent
    [] title = "ApplicationReason" -> r.applicationReason

\* the row of r: 26 columns in the fixed order
ExpectedRow(r) == [ i \in 1..Len(ColumnOrder) |-> ColumnValue(r, ColumnOrder[i]) ]

\* C16: the header row names the 26 columns in the fixed order, the e-mail
\* title at index 23; every record is flattened, by the sink and by the
\* service alike, into the 26 columns in that order, an absent secondary
\* address subfield or agent as the empty string; and each row that
\* handleFormSubmission wrote to the sheet is the row of its record, with
\* the contact e-mail at index 23, the index handleCheckEmail and the
\* confirmation e-mail read.
C16_RowHasFixedColumns ==
  /\ Len(ColumnOrder) = 26
  /\ headers = [ i \in 1..Len(ColumnOrder) |-> << ColumnOrder[i] >> ]
  /\ createHeaders = headers
  /\ Index(headers, emailColumnIndex) = << "ContactEmail" >>
  /\ \A r \in Submissions :
       /\ handleFormSubmission(r) = ExpectedRow(r)
       /\ transformToSheetRow(r) = ExpectedRow(r)
  /\ \A i \in DOMAIN sheet :
       /\ origin[i].by = "header" => i = 1 /\ sheet[i] = headers
       /\ origin[i].by = "handleFormSubmission" =>
            /\ Len(sheet[i]) = 26
            /\ sheet[i] = ExpectedRow(origin[i].form[1])
            /\ Index(sheet[i], emailColumnIndex) = origin[i].form[1].contact.email

\* the sheet holds the row of a record without secondary address and agent
\* and the row of a record with a partial secondary address and an agent
C16_Witness ==
  /\ Len(sheet) = 3
  /\ origin[2].by = "handleFormSubmission"
  /\ origin[2].form[1].secondaryAddress = << >>
  /\ origin[2].form[1].agent = Undefined
  /\ Index(sheet[2], 12) = << >> /\ Index(sheet[2], 24) = << >>
  /\ origin[3].by = "handleFormSubmission"
  /\ Index(sheet[3], 14) = << "secondaryAddress.city" >>
  /\ Index(sheet[3], 15) = << >>
  /\ Index(sheet[3], 24) = << "agent" >>
  /\ Index(sheet[3], 23) \in mails

-----------------------------------------------------------------------------
(* C17 *)

\* the rows of the sheet that were written as header rows
HeaderRows == { i \in DOMAIN origin : origin[i].by = "header" }

-----------------------------------------------------------------------------
(* C18 *)

\* some data row (a row below row 1) has the contact e-mail e
DataRowHasEmail(e) ==
  \E i \in 2..Len(sheet) : Index(sheet[i], emailColumnIndex) = e

\* the last answer of the sink is an answer of its duplicate check
CheckAnswered ==
  /\ answer.handler \in { "handleCheckEmail", "checkDuplicateEmail" }
  /\ ~answer.error

\* C18: whenever the sink's duplicate check answers, it answers exists=true
\* exactly when some data row has the asked e-mail in the contact e-mail
\* column: true for every e-mail that handleFormSubmission wrote, false on
\* an empty or header-only sheet, and never because of the header row; the
\* service reports a duplicate only when the sink answered true.
C18_CheckKeyedOnEmailColumn ==
  /\ CheckAnswered =>
       /\ answer.exists \in { "true", "false" }
       /\ answer.exists = "true" <=> DataRowHasEmail(answer.email)
       /\ Len(sheet) <= 1 => answer.exists = "false"
       /\ \A i \in DOMAIN origin :
            (origin[i].by = "handleFormSubmission"
               /\ origin[i].form[1].contact.email = answer.email)
              => answer.exists = "true"
  /\ (result.fn = "checkDuplicateEmail" /\ result.duplicate) =>
       DataRowHasEmail(result.email)

\* after two submissions through handleFormSubmission the check has found a
\* submitted e-mail
C18_Witness ==
  /\ CheckAnswered
  /\ answer.email = << "b@x" >>
  /\ answer.exists = "true"
  /\ result.fn = "checkDuplicateEmail" /\ result.duplicate
  /\ Len(sheet) = 3
  /\ \A i \in 2..3 : origin[i].by = "handleFormSubmission"

-----------------------------------------------------------------------------
(* C19 *)

\* C19: GoogleFormsService.submitFormData always returns a result, and the
\* result depends on the request alone: a success result with a responseId
\* exactly when the POST resolved, whatever the sink answered, an error
\* result with retryable = true exactly when the request threw, and never a
\* validation result.
C19_FireAndForget ==
  result.fn = "submitFormData" =>
    /\ result.type \in { "success", "error" }
    /\ result.type = "success" <=> result.fetch = "resolves"
    /\ result.type = "success" => result.responseId # Undefined
    /\ result.type = "error" <=> result.fetch = "throws"
    /\ result.type = "error" <=> result.retryable

\* the only request so far was a submission that the sink failed to store,
\* and the service returned success
C19_Witness ==
  /\ nreq = 1
  /\ result.fn = "submitFormData"
  /\ result.type = "success"
  /\ result.responseId = randomUUID
  /\ answer.handler = "handleAppendRow" /\ answer.error
  /\ appends = 0

-----------------------------------------------------------------------------
(* The native form (ShadcnSubsidyForm): react-hook-form with                 *)
(* zodResolver(subsidyFormSchema) of formValidation.ts, mode 'onBlur'.  The  *)
(* messages are ASCII stand-ins for the Japanese texts of the schema.        *)

\* e.target.value of the worker-count input: empty, not a number, the limits
\* and their neighbours, a fraction, a negative number, an exponent, leading
\* white space
TypedTexts ==
  { << >>, << "a" >>, << "0" >>, << "1" >>, << "2" >>, << "2", ".", "5" >>,
    << "-", "2" >>, << "3", "0", "0" >>, << "3", "0", "1" >>,
    << "1", "e", "2" >>, << " ", "3" >> }

IsDigit(c) == \E d \in 0..9 : Digit(d) = c

DigitValue(c) == CHOOSE d \in 0..9 : Digit(d) = c

\* the longest prefix of s made of decimal digits
RECURSIVE LeadingDigits(_)
LeadingDigits(s) ==
  IF s = << >> \/ ~IsDigit(Head(s)) THEN << >>
  ELSE << Head(s) >> \o LeadingDigits(Tail(s))

\* the number that a sequence of decimal digits denotes
RECURSIVE DecimalValue(_)
DecimalValue(ds) ==
  IF ds = << >> THEN 0
  ELSE 10 * DecimalValue(SubSeq(ds, 1, Len(ds) - 1)) + DigitValue(ds[Len(ds)])

\* NaN, as the result of parseInt
NaN == << >>

\* parseInt(text) without a radix, for a text that does not start with 0x:
\* leading white space is skipped, a sign is read, and the digits up to the
\* first other character are the number; << n >> for the number n, NaN when
\* there is no digit
parseInt(text) ==
  LET t == TrimStart(text)
      signed == t # << >> /\ Head(t) \in { "-", "+" }
      ds == LeadingDigits(IF signed THEN Tail(t) ELSE t)
  IN  IF ds = << >> THEN NaN
      ELSE IF signed /\ Head(t) = "-" THEN << 0 - DecimalValue(ds) >>
      ELSE << DecimalValue(ds) >>

\* the Controller's onChange: parseInt(e.target.value) || 0
employeeCountOnChange(text) ==
  LET n == parseInt(text)
  IN  IF n = NaN THEN 0 ELSE n[1]

\* mutant: the lower limit is 1
employeeCountSchema_Min1(n) ==
  IF n < 1 THEN << "employeeCount.min" >>
  ELSE IF n > 300 THEN << "employeeCount.max" >>
  ELSE << >>

\* subsidyFormSchema.employeeCount of formValidation.ts for a number that is
\* an integer (the form holds no other): z.number().int().min(2).max(300);
\* the message of the first issue, << >> when there is none
employeeCountSchema(n) ==
  IF n < 2 THEN << "employeeCount.min" >>
  ELSE IF n > 300 THEN << "employeeCount.max" >>
  ELSE << >>

\* the strings that subsidyFormSchema wants non-empty (min(1)), by path
RequiredStrings(v) ==
  { << "company.name", v.company.name >>,
    << "company.nameKana", v.company.nameKana >>,
    << "representative.lastName", v.representative.lastName >>,
    << "representative.firstName", v.representative.firstName >>,
    << "representative.lastNameKana", v.representative.lastNameKana >>,
    << "representative.firstNameKana", v.representative.firstNameKana >>,
    << "primaryAddress.postalCode", v.primaryAddress.postalCode >>,
    << "primaryAddress.prefecture", v.primaryAddress.prefecture >>,
    << "primaryAddress.city", v.primaryAddress.city >>,
    << "primaryAddress.street", v.primaryAddress.street >>,
    << "contact.lastName", v.contact.lastName >>,
    << "contact.firstName", v.contact.firstName >>,
    << "contact.lastNameKana", v.contact.lastNameKana >>,
    << "contact.firstNameKana", v.contact.firstNameKana >>,
    << "contact.phone", v.contact.phone >>,
    << "contact.email", v.contact.email >>,
    << "applicationReason", v.applicationReason >> }

\* the characters of the model's texts that stand for katakana (ァ-ヶ and ー);
\* every other character, "a" and the white space among them, is none
KatakanaChars ==
  { "company.nameKana", "representative.lastNameKana",
    "representative.firstNameKana", "contact.lastNameKana",
    "contact.firstNameKana", "companyNameKana", "representativeLastNameKana",
    "representativeFirstNameKana", "contactLastNameKana",
    "contactFirstNameKana" }

\* isKatakana: /^[ァ-ヶー\s]+$/.test(value)
isKatakana(value) ==
  /\ value # << >>
  /\ \A i \in DOMAIN value : value[i] \in KatakanaChars \/ IsWhitespace(value[i])

\* the kana fields of the form's values, by path
KanaFields(v) ==
  { << "company.nameKana", v.company.nameKana >>,
    << "representative.lastNameKana", v.representative.lastNameKana >>,
    << "representative.firstNameKana", v.representative.firstNameKana >>,
    << "contact.lastNameKana", v.contact.lastNameKana >>,
    << "contact.firstNameKana", v.contact.firstNameKana >> }

\* the kana fields' .refine((val) => !val || isKatakana(val)) of formValidation.ts
KanaIssues(v) ==
  { << p[1], "katakana" >> :
      p \in { q \in KanaFields(v) : q[2] # << >> /\ ~isKatakana(q[2]) } }

\* zodResolver(subsidyFormSchema) of formValidation.ts on the form's values:
\* the errors, one per path; the non-empty texts of the model are taken to
\* pass the format checks of postal code, phone and e-mail
subsidyFormSchema(v) ==
  { << p[1], "required" >> : p \in { q \in RequiredStrings(v) : q[2] = << >> } }
    \cup KanaIssues(v)
    \cup { << "employeeCount", m[1] >> :
             m \in { x \in { employeeCountSchema(v.employeeCount) } : x # << >> } }

\* Object.values(ApplicationReasons), in the model's texts
ApplicationReasons == { << "a", "b", "c" >>, << "a", "b", "c", "d" >> }

Osaka == << "Osaka" >>

\* mutant: a corporation passes with any secondary prefecture
superRefine_AnyBranch(d) ==
  LET hasPrimaryTokyoAddress == d.primaryAddress.prefecture = Tokyo
      secondaryPrefecture == OptionalChain(d.secondaryAddress, "prefecture")
  IN  (IF d.entityType = Corporation /\ ~hasPrimaryTokyoAddress
            /\ ~IsTruthy(secondaryPrefecture)
         THEN { << "primaryAddress.prefecture", "corporationNeedsTokyo" >>,
                << "secondaryAddress", "branchNeeded" >> }
         ELSE { })
      \cup (IF d.entityType = SoleProprietor /\ ~hasPrimaryTokyoAddress
              THEN { << "primaryAddress.prefecture", "proprietorNeedsTokyo" >> }
              ELSE { })

\* the superRefine of validation.ts's subsidyFormSchema on the parsed data
superRefine(d) ==
  LET hasPrimaryTokyoAddress == d.primaryAddress.prefecture = Tokyo
      secondaryPrefecture == OptionalChain(d.secondaryAddress, "prefecture")
      hasSecondaryTokyoAddress == secondaryPrefecture = Tokyo
  IN  (IF d.entityType = Corporation
            /\ ~hasPrimaryTokyoAddress /\ ~hasSecondaryTokyoAddress
         THEN { << "primaryAddress.prefecture", "corporationNeedsTokyo" >> }
         ELSE { })
      \cup (IF d.entityType = SoleProprietor /\ ~hasPrimaryTokyoAddress
              THEN { << "primaryAddress.prefecture", "proprietorNeedsTokyo" >> }
              ELSE { })
      \cup (IF d.entityType = Corporation
                 /\ d.primaryAddress.prefecture # Tokyo
                 /\ (d.secondaryAddress = << >> \/ ~IsTruthy(secondaryPrefecture))
              THEN { << "secondaryAddress", "branchNeeded" >> }
              ELSE { })

\* z.string().default('') on every string of an address or a name
WithDefaults(obj) == [ key \in DOMAIN obj |-> OrEmpty(obj[key]) ]

\* what validation.ts's subsidyFormSchema makes of values whose fields it
\* accepts: the strings left undefined become ''
validation_parsed(v) ==
  [ v EXCEPT !.company = WithDefaults(@),
             !.representative = WithDefaults(@),
             !.primaryAddress = WithDefaults(@),
             !.secondaryAddress = IF @ = << >> THEN @ ELSE << WithDefaults(@[1]) >>,
             !.contact = WithDefaults(@) ]

\* the issues of validation.ts's subsidyFormSchema that belong to one field;
\* a value of the wrong type or outside an enum aborts the object
validation_fields(v) ==
  (IF v.entityType \in { Corporation, SoleProprietor }
     THEN { } ELSE { << "entityType", "invalid" >> })
  \cup (IF "employeeCount" \notin DOMAIN v
          THEN { << "employeeCount", "invalid" >> }
          ELSE { << "employeeCount", m[1] >> :
                   m \in { x \in { employeeCountSchema(v.employeeCount) } :
                             x # << >> } })
  \cup (IF v.applicationMethod \in { Paper, Electronic }
          THEN { } ELSE { << "applicationMethod", "invalid" >> })
  \cup (IF v.applicationReason \in ApplicationReasons
          THEN { } ELSE { << "applicationReason", "invalid" >> })

\* zodResolver(subsidyFormSchema) of validation.ts on the form's values: the
\* errors, one per path; the superRefine runs unless a field aborted
validation_subsidyFormSchema(v) ==
  LET issues == validation_fields(v)
  IN  IF \E e \in issues : e[2] = "invalid"
        THEN issues
        ELSE issues \cup superRefine(validation_parsed(v))

\* the form components and the schema each of them resolves with
Components ==
  { "ShadcnSubsidyForm", "CompleteSubsidyForm", "ModernSubsidyForm" }

\* zodResolver(subsidyFormSchema) of the rendered component
Resolver(v) ==
  IF component = "ShadcnSubsidyForm" THEN subsidyFormSchema(v)
                                     ELSE validation_subsidyFormSchema(v)

\* the data that handleSubmit passes on: the resolver's output
Parsed(v) ==
  IF component = "ShadcnSubsidyForm" THEN v ELSE validation_parsed(v)

\* the errors of the paths in ps replaced by what the resolver finds for them
Revalidated(ps, v) ==
  { e \in errors : e[1] \notin ps } \cup { e \in Resolver(v) : e[1] \in ps }

\* secondaryAddress of the form: four strings, empty or filled in
FormSecondaryAddresses ==
  { defaultValues.secondaryAddress,
    << [ postalCode |-> << "secondaryAddress.postalCode" >>,
         prefecture |-> Tokyo,
         city |-> << "secondaryAddress.city" >>,
         street |-> << "secondaryAddress.street" >> ] >> }

\* what typing leaves in the company's kana input: katakana, katakana with a
\* blank, Latin letters
KanaTexts == { << "company.nameKana" >>, << "company.nameKana", " " >>, << "a" >> }

\* what the user can make of the fields other than the worker count: nothing
\* filled in, the company's name alone, every required field with each kind
\* of kana, every field
OtherFieldValues ==
  { defaultValues,
    [ defaultValues EXCEPT !.company.name = << "company.name" >> ] }
    \cup { [ SubsidyFormData(<< "a@x" >>, defaultValues.secondaryAddress, << >>)
               EXCEPT !.company.nameKana = kana ] : kana \in KanaTexts }
    \cup { SubsidyFormData(<< "a@x" >>, sa, << "agent" >>) :
             sa \in FormSecondaryAddresses \ { defaultValues.secondaryAddress } }

\* the worker count that the form holds: << n >>, << >> while it is undefined
CountOf(v) == IF "employeeCount" \in DOMAIN v THEN << v.employeeCount >> ELSE << >>

\* the values v with the worker count replaced
WithCount(v, count) ==
  IF count = << >>
    THEN [ key \in DOMAIN v \ { "employeeCount" } |-> v[key] ]
    ELSE ("employeeCount" :> count[1]) @@ v

\* the values of a form without defaultValues before anything is entered:
\* every field undefined
noValues ==
  LET undefined(obj) == [ key \in DOMAIN obj |-> Undefined ]
  IN  WithCount([ defaultValues EXCEPT
                    !.entityType = Undefined,
                    !.applicationMethod = Undefined,
                    !.company = undefined(@),
                    !.representative = undefined(@),
                    !.primaryAddress = undefined(@),
                    !.secondaryAddress = << undefined(@[1]) >>,
                    !.contact = undefined(@),
                    !.agent = Undefined,
                    !.applicationReason = Undefined ], << >>)

\* what the user can make of the fields other than the worker count in the
\* forms of validation.ts: every field filled in, for each entity type, each
\* pair of prefectures and each kind of kana
VariantFieldValues ==
  { [ SubsidyFormData(<< "a@x" >>,
                      << [ defaultValues.secondaryAddress[1]
                             EXCEPT !.prefecture = p2 ] >>, << >>)
        EXCEPT !.entityType = entity,
               !.primaryAddress.prefecture = p1,
               !.company.nameKana = kana ] :
      entity \in { Corporation, SoleProprietor },
      p1 \in { Tokyo, Osaka, << >> }, p2 \in { Tokyo, Osaka, << >> },
      kana \in KanaTexts }

\* the browser's constraint validation of the entry screen's inputs: the
\* worker-count input has min="2" max="300", CompleteSubsidyForm's kana inputs
\* have pattern="[ァ-ヶー\s]+"; an empty input passes
NativeValid ==
  /\ IF CountOf(values) = << >> THEN TRUE ELSE values.employeeCount \in 2..300
  /\ component = "CompleteSubsidyForm" =>
       \A p \in KanaFields(values) : OrEmpty(p[2]) = << >> \/ isKatakana(p[2])

EntryShown == ~showConfirmation /\ ~showCompletion

\* the native form and its sink Code.ts, nothing filled in
FormInit ==
  /\ driver = "none"
  /\ argv = Undefined
  /\ files = NoFiles
  /\ data = NoFormData
  /\ pc = "form"
  /\ browser = "none"
  /\ StartOfRun
  /\ script = "Code.ts"
  /\ sheetExists \in BOOLEAN
  /\ EmptySink
  /\ FreshForm

\* the user types into the worker-count input; after a submit attempt
\* react-hook-form validates the field again on every change
ChangeEmployeeCount ==
  /\ EntryShown
  /\ \E text \in TypedTexts :
       values' = WithCount(values, << employeeCountOnChange(text) >>)
  /\ errors' = IF isSubmitted THEN Revalidated({ "employeeCount" }, values')
                              ELSE errors
  /\ submitted' = << >>
  /\ lastEvent' = "onChange"
  /\ UNCHANGED << automationVars, component, sinkVars, asideVars, showConfirmation, showCompletion,
                  isSubmitted >>

\* a form of validation.ts and its sink Code.ts, nothing entered
VariantInit ==
  /\ driver = "none"
  /\ argv = Undefined
  /\ files = NoFiles
  /\ data = NoFormData
  /\ pc = "form"
  /\ browser = "none"
  /\ StartOfRun
  /\ script = "Code.ts"
  /\ sheetExists = TRUE
  /\ EmptySink
  /\ component \in { "CompleteSubsidyForm", "ModernSubsidyForm" }
  /\ values = noValues
  /\ errors = { }
  /\ showConfirmation = FALSE
  /\ showCompletion = FALSE
  /\ isSubmitted = FALSE
  /\ submitted = << >>
  /\ lastEvent = ""
  /\ FreshHook

\* the worker-count input loses the focus: mode 'onBlur' validates the field
BlurEmployeeCount ==
  /\ EntryShown
  /\ errors' = Revalidated({ "employeeCount" }, values)
  /\ submitted' = << >>
  /\ lastEvent' = "onBlur"
  /\ UNCHANGED << automationVars, component, sinkVars, asideVars, values, showConfirmation,
                  showCompletion, isSubmitted >>

\* the user edits the other inputs and leaves them
ChangeOtherFields ==
  /\ EntryShown
  /\ \E v \in IF component = "ShadcnSubsidyForm" THEN OtherFieldValues
                                                   ELSE VariantFieldValues :
       values' = WithCount(v, CountOf(values))
  /\ errors' = { e \in errors : e[1] = "employeeCount" }
                 \cup { e \in Resolver(values') : e[1] # "employeeCount" }
  /\ submitted' = << >>
  /\ lastEvent' = "onChange"
  /\ UNCHANGED << automationVars, component, sinkVars, asideVars, showConfirmation, showCompletion,
                  isSubmitted >>

\* the entry screen's form is submitted: handleSubmit(handleConfirm)
Confirm ==
  /\ EntryShown
  /\ component = "ShadcnSubsidyForm" \/ NativeValid
  /\ errors' = Resolver(values)
  /\ isSubmitted' = TRUE
  /\ showConfirmation' = (errors' = { })
  /\ submitted' = << >>
  /\ lastEvent' = "handleConfirm"
  /\ UNCHANGED << automationVars, component, sinkVars, asideVars, values, showCompletion >>

\* the entry screen's submit button is pressed while an input violates its
\* constraint: the browser reports it and fires no submit event
InvalidEntry ==
  /\ EntryShown
  /\ ~NativeValid
  /\ submitted' = << >>
  /\ lastEvent' = "invalid"
  /\ UNCHANGED << automationVars, component, sinkVars, asideVars, values, errors,
                  showConfirmation, showCompletion, isSubmitted >>

\* the confirmation screen's back button: handleBack
Back ==
  /\ showConfirmation /\ ~showCompletion
  /\ showConfirmation' = FALSE
  /\ submitted' = << >>
  /\ lastEvent' = "handleBack"
  /\ UNCHANGED << automationVars, component, sinkVars, asideVars, values, errors, showCompletion,
                  isSubmitted >>

\* the confirmation screen's send button: handleSubmit(onSubmit) validates
\* the values again and onSubmit hands them to submitForm, which is
\* GoogleFormsService.submitFormData; a success result shows the completion
\* screen, an error result leaves the confirmation screen
Submit ==
  /\ showConfirmation /\ ~showCompletion
  /\ nreq < MaxRequests
  /\ errors' = Resolver(values)
  /\ lastEvent' = "onSubmit"
  /\ IF errors' # { }
       THEN /\ submitted' = << >>
            /\ UNCHANGED << sinkVars, showCompletion >>
       ELSE /\ submitted' = << Parsed(values) >>
            /\ \E fetch \in FetchOutcomes, fault \in Faults :
                 /\ IF fetch = "resolves"
                      THEN handleAppendRow(handleFormSubmission(Parsed(values)),
                                           TRUE, "handleFormSubmission",
                                           << Parsed(values) >>, fault)
                      ELSE UNCHANGED << sheetExists, sheet, origin, answer,
                                        mails, appends >>
                 /\ result' = GoogleFormsService_submitFormData(fetch, answer')
            /\ showCompletion' = (result'.type = "success")
            /\ nreq' = nreq + 1
            /\ UNCHANGED script
  /\ UNCHANGED << automationVars, component, asideVars, values, showConfirmation,
               isSubmitted >>

FormNext ==
  \/ ChangeEmployeeCount \/ BlurEmployeeCount \/ ChangeOtherFields
  \/ Confirm \/ InvalidEntry \/ Back \/ Submit

FormSpec == FormInit /\ [][FormNext]_vars

VariantSpec == VariantInit /\ [][FormNext]_vars

-----------------------------------------------------------------------------
(* C20 *)

WorkerCounts == 2..300

\* C20: whenever the native form shows the confirmation screen, and for every
\* record it has handed to submitForm, the worker count is an integer n with
\* 2 <= n <= 300; and a submit of the entry screen that finds the worker
\* count 0, 1 or 301 stays on the entry screen with a validation error of
\* the worker count, 0 being what the input's handler makes of an empty and
\* of a non-numeric text.
C20_WorkerCountInRange ==
  /\ \A text \in { << >>, << "a" >> } : employeeCountOnChange(text) = 0
  /\ showConfirmation => values.employeeCount \in WorkerCounts
  /\ submitted # << >> => submitted[1].employeeCount \in WorkerCounts
  /\ (lastEvent = "handleConfirm" /\ values.employeeCount \in { 0, 1, 301 }) =>
       /\ ~showConfirmation
       /\ \E e \in errors : e[1] = "employeeCount"

\* an empty input was turned into 0 and the submit of the otherwise complete
\* entry screen was refused for the worker count alone
C20_Witness ==
  /\ lastEvent = "handleConfirm"
  /\ values.employeeCount = 0
  /\ ~showConfirmation
  /\ errors = { << "employeeCount", "employeeCount.min" >> }

-----------------------------------------------------------------------------
(* C21 *)

\* every character of the text is katakana
KatakanaOnly(text) == \A i \in DOMAIN text : text[i] \in KatakanaChars

\* C21: the record that a native form shows on its confirmation screen, and
\* the record it hands to submitForm, has no kana field with a character
\* other than katakana.
C21_KanaOnlyKatakana ==
  /\ showConfirmation =>
       \A p \in KanaFields(Parsed(values)) : KatakanaOnly(p[2])
  /\ submitted # << >> =>
       \A p \in KanaFields(submitted[1]) : KatakanaOnly(p[2])

-----------------------------------------------------------------------------
(* C24 *)

\* the rule of the Tokyo address for the parsed record r
TokyoAddressPresent(r) ==
  LET primary == r.primaryAddress.prefecture
      secondary == r.secondaryAddress[1].prefecture
  IN  /\ r.entityType = Corporation => primary = Tokyo \/ secondary = Tokyo
      /\ r.entityType = SoleProprietor => primary = Tokyo
      /\ (r.entityType = Corporation /\ primary # Tokyo) => secondary # << >>

\* C24: a form of validation.ts shows the confirmation screen only for a
\* record with a Tokyo address, and when the entry screen is submitted with
\* every single field acceptable, the schema accepts the record exactly when
\* the rule of the Tokyo address holds for it.
C24_TokyoAddressRule ==
  /\ showConfirmation => TokyoAddressPresent(Parsed(values))
  /\ (lastEvent = "handleConfirm" /\ validation_fields(values) = { }) =>
       (showConfirmation <=> TokyoAddressPresent(Parsed(values)))

\* a corporation with its head office outside Tokyo and a branch in Tokyo
\* was accepted
C24_Witness ==
  /\ lastEvent = "handleConfirm"
  /\ showConfirmation
  /\ values.entityType = Corporation
  /\ values.primaryAddress.prefecture = Osaka
  /\ values.secondaryAddress[1].prefecture = Tokyo

-----------------------------------------------------------------------------
(* C22 *)

\* what the driver prints when page.goto or the wait for the anchor field fails
NavigationErrors ==
  { << "error", << "goto", "", << >> >> >>,
    << "error", << "waitForSelector", "company_name", << >> >> >> }

\* the driver has not yet got past the wait for the anchor field
BeforeAnchor ==
  pc \in { "readInput", "launch", "newContext", "newPage", "goto", "waitAnchor",
           "rejected", "exited" }

\* C22: in a driver, an engine function or a section filler has run only
\* when page.goto and the wait for the anchor field have both returned; and
\* when either of them failed, the run goes to the finally block with no
\* filler invoked, nothing written, the operator never asked and no button
\* clicked.
C22_FillOnlyAfterAnchor ==
  InDriver =>
    /\ (fn # "" \/ calls # << >>) => ~BeforeAnchor /\ printed \notin NavigationErrors
    /\ printed \in NavigationErrors =>
         /\ pc \in { "finally", "done" }
         /\ fn = "" /\ calls = << >> /\ writes = { }
         /\ userInput = NoText
         /\ \A b \in DOMAIN clicks : clicks[b] = 0
         /\ submitClickedIn = { }

\* the anchor field never appeared: the run ended with the browser closed and
\* no filler invoked
C22_Witness ==
  /\ InDriver
  /\ pc = "done"
  /\ browser = "closed"
  /\ printed = << "error", << "waitForSelector", "company_name", << >> >> >>
  /\ calls = << >>

-----------------------------------------------------------------------------
(* The multi-step hook: useMultiStepForm and its reducer *)

\* the steps of the multi-step form, in stepOrder
FormSteps == << "companyInfo", "address", "employee", "contact", "confirmation",
                "completion" >>

\* the transition table
STEP_TRANSITIONS ==
  [ companyInfo |-> [next |-> "address"],
    address |-> [next |-> "employee", prev |-> "companyInfo"],
    employee |-> [next |-> "contact", prev |-> "address"],
    contact |-> [next |-> "confirmation", prev |-> "employee"],
    confirmation |-> [next |-> "completion", prev |-> "contact"],
    completion |-> << >> ]

\* the keys of SubsidyFormData that the payloads carry
DataKeys == { "companyName", "postalCode" }

\* Partial<SubsidyFormData>: any of the keys, each with a value
Payloads == UNION { [ks -> { "a", "b" }] : ks \in SUBSET DataKeys }

\* SubsidyFormData: every key with a value
CompleteData == [DataKeys -> { "a", "b" }]

\* what crypto.randomUUID() and the caller of complete() can produce
SubmissionIds == { "id1", "id2" }

\* { ...a, ...b }: the keys of b override, every other key of a is kept
Spread(a, b) ==
  [k \in (DOMAIN a) \cup (DOMAIN b) |-> IF k \in DOMAIN b THEN b[k] ELSE a[k]]

\* state.data; the completion variant has none, and a data of undefined is
\* an absent field
DataOf(s) == IF "data" \in DOMAIN s THEN s.data ELSE << >>

\* { step, data: currentData } where currentData is state.data
WithStep(step, s) ==
  IF "data" \in DOMAIN s THEN [step |-> step, data |-> s.data] ELSE [step |-> step]

\* mutant: in NEXT_STEP the accumulated data overrides the payload
formReducer_KeepsOldKeys(s, a, uuid) ==
  CASE a.type = "NEXT_STEP" ->
         IF "next" \notin DOMAIN STEP_TRANSITIONS[s.step] THEN s
         ELSE LET nextStep == STEP_TRANSITIONS[s.step].next
                  updatedData == Spread(a.payload, DataOf(s))
              IN  IF nextStep = "completion"
                  THEN [step |-> "completion", submissionId |-> uuid]
                  ELSE [step |-> nextStep, data |-> updatedData]
    [] a.type = "PREVIOUS_STEP" ->
         IF "prev" \notin DOMAIN STEP_TRANSITIONS[s.step] THEN s
         ELSE WithStep(STEP_TRANSITIONS[s.step].prev, s)
    [] a.type = "GO_TO_STEP" ->
         IF a.step = "completion"
         THEN [step |-> "completion", submissionId |-> uuid]
         ELSE WithStep(a.step, s)
    [] a.type = "UPDATE_DATA" ->
         IF s.step = "completion" THEN s
         ELSE [step |-> s.step, data |-> Spread(DataOf(s), a.payload)]
    [] a.type = "SUBMIT" -> [step |-> "confirmation", data |-> a.payload]
    [] a.type = "COMPLETE" -> [step |-> "completion", submissionId |-> a.submissionId]
    [] a.type = "RESET" -> initialState

\* the reducer; uuid is what crypto.randomUUID() returns when it is called
formReducer(s, a, uuid) ==
  CASE a.type = "NEXT_STEP" ->
         IF "next" \notin DOMAIN STEP_TRANSITIONS[s.step] THEN s
         ELSE LET nextStep == STEP_TRANSITIONS[s.step].next
                  updatedData == Spread(DataOf(s), a.payload)
              IN  IF nextStep = "completion"
                  THEN [step |-> "completion", submissionId |-> uuid]
                  ELSE [step |-> nextStep, data |-> updatedData]
    [] a.type = "PREVIOUS_STEP" ->
         IF "prev" \notin DOMAIN STEP_TRANSITIONS[s.step] THEN s
         ELSE WithStep(STEP_TRANSITIONS[s.step].prev, s)
    [] a.type = "GO_TO_STEP" ->
         IF a.step = "completion"
         THEN [step |-> "completion", submissionId |-> uuid]
         ELSE WithStep(a.step, s)
    [] a.type = "UPDATE_DATA" ->
         IF s.step = "completion" THEN s
         ELSE [step |-> s.step, data |-> Spread(DataOf(s), a.payload)]
    [] a.type = "SUBMIT" -> [step |-> "confirmation", data |-> a.payload]
    [] a.type = "COMPLETE" -> [step |-> "completion", submissionId |-> a.submissionId]
    [] a.type = "RESET" -> initialState

\* the multi-step form is mounted; nothing else runs
HookInit ==
  /\ driver = "none"
  /\ argv = Undefined
  /\ files = NoFiles
  /\ data = NoFormData
  /\ pc = "form"
  /\ browser = "none"
  /\ StartOfRun
  /\ script = "Code.ts"
  /\ sheetExists = TRUE
  /\ EmptySink
  /\ component = "SubsidyForm"
  /\ values = noValues
  /\ errors = { }
  /\ showConfirmation = FALSE
  /\ showCompletion = FALSE
  /\ isSubmitted = FALSE
  /\ submitted = << >>
  /\ lastEvent = ""
  /\ FreshHook

\* dispatch(a)
dispatch(a) ==
  /\ \E uuid \in SubmissionIds : state' = formReducer(state, a, uuid)
  /\ action' = a
  /\ previous' = state
  /\ UNCHANGED << automationVars, sinkVars, nativeVars, lookupVars, attemptVars >>

nextStep == \E p \in Payloads : dispatch([type |-> "NEXT_STEP", payload |-> p])

previousStep == dispatch([type |-> "PREVIOUS_STEP"])

goToStep ==
  \E i \in DOMAIN FormSteps : dispatch([type |-> "GO_TO_STEP", step |-> FormSteps[i]])

updateData == \E p \in Payloads : dispatch([type |-> "UPDATE_DATA", payload |-> p])

submit == \E p \in CompleteData : dispatch([type |-> "SUBMIT", payload |-> p])

complete ==
  \E id \in SubmissionIds : dispatch([type |-> "COMPLETE", submissionId |-> id])

reset == dispatch([type |-> "RESET"])

HookNext ==
  \/ nextStep
  \/ previousStep
  \/ goToStep
  \/ updateData
  \/ submit
  \/ complete
  \/ reset

HookSpec == HookInit /\ [][HookNext]_vars

-----------------------------------------------------------------------------
(* C23 *)

\* the last action moved the form one step along the table's next entry and
\* the state after it holds the merge of the accumulated data and the payload
NextStepMerged ==
  /\ state.step = STEP_TRANSITIONS[previous.step].next
  /\ "data" \in DOMAIN state
  /\ DOMAIN state.data = (DOMAIN DataOf(previous)) \cup (DOMAIN action.payload)
  /\ \A k \in DOMAIN action.payload : state.data[k] = action.payload[k]
  /\ \A k \in (DOMAIN DataOf(previous)) \ (DOMAIN action.payload) :
       state.data[k] = previous.data[k]

\* PREVIOUS_STEP and RESET, and the two actions where the table has no entry
BackAndReset ==
  /\ action.type = "NEXT_STEP" /\ previous.step = "completion" => state = previous
  /\ action.type = "PREVIOUS_STEP" =>
       IF previous.step \in { "companyInfo", "completion" }
       THEN state = previous
       ELSE /\ state.step = STEP_TRANSITIONS[previous.step].prev
            /\ ("data" \in DOMAIN state) = ("data" \in DOMAIN previous)
            /\ DataOf(state) = DataOf(previous)
  /\ action.type = "RESET" => state = initialState

\* C23 as stated: every NEXT_STEP with a table entry, the one at
\* confirmation included, leaves the merged data in the state
C23_AsStated ==
  /\ BackAndReset
  /\ action.type = "NEXT_STEP" /\ previous.step # "completion" => NextStepMerged

\* C23: formReducer follows STEP_TRANSITIONS. NEXT_STEP at companyInfo,
\* address, employee and contact moves one step forward and leaves the merge
\* of the accumulated data and the payload (payload keys override, the other
\* keys kept); NEXT_STEP at confirmation moves to completion, where the state
\* holds a fresh submissionId and no data; PREVIOUS_STEP moves one step back
\* with the data unchanged; NEXT_STEP at completion and PREVIOUS_STEP at
\* companyInfo and completion leave the state unchanged; RESET gives
\* initialState.
C23_FollowsTransitionTable ==
  /\ BackAndReset
  /\ action.type = "NEXT_STEP" /\ previous.step \notin { "confirmation", "completion" }
       => NextStepMerged
  /\ action.type = "NEXT_STEP" /\ previous.step = "confirmation" =>
       /\ state.step = "completion"
       /\ DOMAIN state = { "step", "submissionId" }
       /\ state.submissionId \in SubmissionIds

\* a NEXT_STEP whose payload replaced one key and kept another
C23_Witness ==
  /\ action.type = "NEXT_STEP"
  /\ previous.step = "contact"
  /\ previous.data = [companyName |-> "a", postalCode |-> "a"]
  /\ action.payload = [companyName |-> "b"]
  /\ state = [step |-> "confirmation", data |-> [companyName |-> "b", postalCode |-> "a"]]

-----------------------------------------------------------------------------
(* C26 *)

\* C26: every reachable state of the reducer is well-formed for its tag: a
\* step other than completion carries a data record, completion carries a
\* submissionId and no data.
C26_WellFormed ==
  IF state.step = "completion"
  THEN DOMAIN state = { "step", "submissionId" }
  ELSE "data" \in DOMAIN state

-----------------------------------------------------------------------------
(* C25 *)

\* an append request for the record r that the spreadsheet service serves
\* without a failure of its own
ServedAppend(r) ==
  handleAppendRow(handleFormSubmission(r), TRUE, "handleFormSubmission", << r >>, "none")

\* C25: when the sheet does not exist at the time of an append request,
\* handleAppendRow creates it, writes the header row and the data row and
\* answers success: the request does not end in an error answer with no row
\* stored.
C25_MissingSheetCreated ==
  script = "Code.ts" /\ ~sheetExists =>
    \A r \in PostedSubmissions :
      ENABLED ( /\ ServedAppend(r)
                /\ sheetExists'
                /\ answer'.success = TRUE
                /\ sheet' = << headers, handleFormSubmission(r) >> )

\* what the code does instead: the sheet is created, the handler answers
\* with an error and the sheet stays empty
C25_ErrorAndNoRow ==
  script = "Code.ts" /\ ~sheetExists =>
    \A r \in PostedSubmissions :
      ENABLED ( /\ ServedAppend(r)
                /\ sheetExists'
                /\ answer' = ErrorAnswer("handleAppendRow")
                /\ sheet' = << >> )

-----------------------------------------------------------------------------
(* The postal-code lookup of the native form *)

MaxEntries == 2      \* 7-digit postal codes entered into one address block

AddressBlocks == { "primary", "secondary" }

\* what the user can leave in a postal-code input: two codes that the
\* lookup service knows, one of them also typed with its hyphen, a code
\* that it does not know, and a code that is not complete yet
PostalTexts ==
  { << "1", "0", "0", "0", "0", "0", "1" >>,
    << "1", "0", "0", "-", "0", "0", "0", "1" >>,
    << "5", "3", "0", "0", "0", "0", "1" >>,
    << "9", "9", "9", "9", "9", "9", "9" >>,
    << "1", "0", "0", "0", "0", "0" >> }

\* value.replace(/[^0-9]/g, '')
CleanedCode(value) == SelectSeq(value, IsDigit)

\* formatPostalCode(value)
formatPostalCode(value) ==
  LET numbers == CleanedCode(value)
  IN  IF Len(numbers) <= 3 THEN numbers
      ELSE SubSeq(numbers, 1, 3) \o << "-" >> \o SubSeq(numbers, 4, Min(7, Len(numbers)))

\* the codes for which the lookup service has a result
KnownCodes ==
  { << "1", "0", "0", "0", "0", "0", "1" >>, << "5", "3", "0", "0", "0", "0", "1" >> }

\* results[0] of the lookup service for a code it knows, as AddressData
AddressData(code) ==
  IF code = << "1", "0", "0", "0", "0", "0", "1" >>
    THEN [ prefecture |-> Tokyo, city |-> << "Chiyoda-ku" >>, town |-> << "Chiyoda" >> ]
    ELSE [ prefecture |-> Osaka, city |-> << "Osaka-shi Kita-ku" >>,
           town |-> << "Umeda" >> ]

\* setValue(addressType + 'Address.' + name, value)
SetAddressValue(v, addressType, name, value) ==
  IF addressType = "primary"
    THEN [v EXCEPT !.primaryAddress[name] = value]
    ELSE [v EXCEPT !.secondaryAddress[1][name] = value]

\* the form as it is first rendered, with no lookup started
LookupInit ==
  /\ FormInit
  /\ sheetExists = TRUE

\* handlePostalCodeChange(value, addressType) up to its await: the formatted
\* code is stored and, for seven digits, the lookup request is sent
handlePostalCodeChange ==
  /\ EntryShown
  /\ \E value \in PostalTexts, addressType \in AddressBlocks :
       LET cleanedCode == CleanedCode(value)
           n == latest[addressType].n + 1
       IN  /\ values' = SetAddressValue(values, addressType, "postalCode",
                                        formatPostalCode(value))
           /\ IF Len(cleanedCode) = 7
                THEN /\ n <= MaxEntries
                     /\ lookups' = lookups \cup
                          { [block |-> addressType, code |-> cleanedCode, n |-> n] }
                     /\ latest' = [latest EXCEPT
                                     ![addressType] = [code |-> cleanedCode, n |-> n]]
                ELSE UNCHANGED << lookups, latest >>
  /\ submitted' = << >>
  /\ lastEvent' = "handlePostalCodeChange"
  /\ UNCHANGED << automationVars, sinkVars, component, errors, showConfirmation,
                  showCompletion, isSubmitted, hookVars, applied, attemptVars >>

\* handlePostalCodeChange after its await: searchAddressByPostalCode has
\* returned the address of the code or, after any failure, null; an address
\* is written into the block's prefecture and city
LookupReturns ==
  /\ \E l \in lookups, found \in BOOLEAN :
       /\ found => l.code \in KnownCodes
       /\ lookups' = lookups \ { l }
       /\ IF found
            THEN /\ values' =
                      SetAddressValue(
                        SetAddressValue(values, l.block, "prefecture",
                                        AddressData(l.code).prefecture),
                        l.block, "city",
                        AddressData(l.code).city \o AddressData(l.code).town)
                 /\ applied' = [applied EXCEPT ![l.block] = @ \cup { l.n }]
            ELSE UNCHANGED << values, applied >>
  /\ submitted' = << >>
  /\ lastEvent' = "handlePostalCodeChange"
  /\ UNCHANGED << automationVars, sinkVars, component, errors, showConfirmation,
                  showCompletion, isSubmitted, hookVars, latest, attemptVars >>

LookupNext ==
  \/ handlePostalCodeChange
  \/ LookupReturns

LookupSpec == LookupInit /\ [][LookupNext]_vars

-----------------------------------------------------------------------------
(* C27 *)

\* the prefecture and city that an address block of the form holds
BlockAddress(addressType) ==
  IF addressType = "primary"
    THEN << values.primaryAddress.prefecture, values.primaryAddress.city >>
    ELSE << values.secondaryAddress[1].prefecture, values.secondaryAddress[1].city >>

\* C27: once the lookup result of the most recently entered 7-digit postal
\* code of a block has been written, the block's prefecture and city are
\* those of that code, whatever order the responses arrive in: the response
\* for an older input never overwrites them.
C27_LatestLookupWins ==
  \A b \in AddressBlocks :
    latest[b].n \in applied[b] =>
      BlockAddress(b) = << AddressData(latest[b].code).prefecture,
                           AddressData(latest[b].code).city
                             \o AddressData(latest[b].code).town >>

-----------------------------------------------------------------------------
(* The submission attempt of the native form, from the click to the end of
   onSubmit *)

MaxAttempts == 2     \* onSubmit calls in one run

\* how the awaited submitForm call can come out for onSubmit: the three
\* types of FormSubmissionResult, and a rejected promise
SubmitOutcomes == { "success", "error", "validation", "throws" }

\* the send button of the confirmation screen, handleSubmit(onSubmit): the
\* button is disabled while isSubmitting; after validation onSubmit sets
\* isSubmitting and calls submitForm
StartSubmit ==
  /\ showConfirmation /\ ~showCompletion
  /\ ~isSubmitting
  /\ attempts < MaxAttempts
  /\ errors' = Resolver(values)
  /\ lastEvent' = "onSubmit"
  /\ IF errors' # { }
       THEN /\ submitted' = << >>
            /\ UNCHANGED attemptVars
       ELSE /\ submitted' = << Parsed(values) >>
            /\ isSubmitting' = TRUE
            /\ inFlight' = inFlight + 1
            /\ attempts' = attempts + 1
            /\ ended' = ""
            /\ called' = << >>
  /\ UNCHANGED << automationVars, sinkVars, component, values, showConfirmation,
                  showCompletion, isSubmitted, hookVars, lookupVars >>

\* onSubmit from the return of submitForm to the end of its finally block
SubmitReturns ==
  /\ inFlight > 0
  /\ \E outcome \in SubmitOutcomes :
       /\ ended' = outcome
       /\ showCompletion' = IF outcome = "success" THEN TRUE ELSE showCompletion
       /\ called' = CASE outcome = "success" -> Append(called, "onSubmitSuccess")
                      [] outcome \in { "error", "throws" } ->
                           Append(called, "onSubmitError")
                      [] OTHER -> called
  /\ isSubmitting' = FALSE
  /\ inFlight' = inFlight - 1
  /\ lastEvent' = "onSubmit"
  /\ UNCHANGED << automationVars, sinkVars, component, values, errors,
                  showConfirmation, isSubmitted, submitted, hookVars, lookupVars,
                  attempts >>

AttemptNext ==
  \/ ChangeOtherFields
  \/ Confirm
  \/ Back
  \/ StartSubmit
  \/ SubmitReturns

AttemptSpec == LookupInit /\ [][AttemptNext]_vars

-----------------------------------------------------------------------------
(* C28 *)

C28_SilentOnValidation ==
  /\ ended # "" => ~isSubmitting
  /\ ended = "validation" => called = << >>
  /\ ended = "success" => called = << "onSubmitSuccess" >>
  /\ ended \in { "error", "throws" } => called = << "onSubmitError" >>
  /\ showCompletion => ended = "success"
  /\ inFlight <= 1
  /\ isSubmitting = (inFlight = 1)

-----------------------------------------------------------------------------
(* The flat form filler: fillForm and its section fillers on the page with
   name attributes. Every call is written with the locator it uses and the
   logical field it sets, named as the composite page names it. *)

SelectOption(sec, sel, v, fld) == Op("selectOption", sel, << >>, v, fld, sec)

flat_selectEntityType(entityType) ==
  LET value == IF entityType = Corporation THEN Corporation ELSE SoleProprietor
  IN  << Call("selectEntityType"),
         Op("click", "entityType", value, value, "entityType", "selectEntityType") >>

flat_fillCompanyInfo(d) ==
  << Call("fillCompanyInfo"),
     Op("fill", "companyName", << >>, d.companyName, "company_name", "fillCompanyInfo"),
     Op("fill", "companyNameKana", << >>, d.companyNameKana, "company_furigana",
        "fillCompanyInfo") >>

flat_fillRepresentativeInfo(d) ==
  << Call("fillRepresentativeInfo"),
     Op("fill", "representativeLastName", << >>, d.representativeLastName,
        "lastname", "fillRepresentativeInfo"),
     Op("fill", "representativeFirstName", << >>, d.representativeFirstName,
        "firstname", "fillRepresentativeInfo"),
     Op("fill", "representativeLastNameKana", << >>, d.representativeLastNameKana,
        "lastfurigana", "fillRepresentativeInfo"),
     Op("fill", "representativeFirstNameKana", << >>, d.representativeFirstNameKana,
        "firstfurigana", "fillRepresentativeInfo") >>

flat_fillCompanyAddress1(d) ==
  << Call("fillCompanyAddress1"),
     Op("fill", "address1PostalCode", << >>, d.address1PostalCode, "4.zipcode",
        "fillCompanyAddress1"),
     SelectOption("fillCompanyAddress1", "address1Prefecture", d.address1Prefecture,
                  "4.prefecture"),
     Op("fill", "address1City", << >>, d.address1City, "4.address1",
        "fillCompanyAddress1"),
     Op("fill", "address1Street", << >>, d.address1Street, "4.address2",
        "fillCompanyAddress1") >>

flat_fillCompanyAddress2(d) ==
  << Call("fillCompanyAddress2") >>
  \o (IF Truthy(d.address2PostalCode)
        THEN << Op("fill", "address2PostalCode", << >>, d.address2PostalCode,
                   "5.zipcode", "fillCompanyAddress2") >>
        ELSE << >>)
  \o (IF Truthy(d.address2Prefecture)
        THEN << SelectOption("fillCompanyAddress2", "address2Prefecture",
                             d.address2Prefecture, "5.prefecture") >>
        ELSE << >>)
  \o (IF Truthy(d.address2City)
        THEN << Op("fill", "address2City", << >>, d.address2City, "5.address1",
                   "fillCompanyAddress2") >>
        ELSE << >>)
  \o (IF Truthy(d.address2Street)
        THEN << Op("fill", "address2Street", << >>, d.address2Street, "5.address2",
                   "fillCompanyAddress2") >>
        ELSE << >>)

flat_fillWorkerCount(workerCount) ==
  << Call("fillWorkerCount"),
     Op("fill", "employeeCount", << >>, toString(workerCount), "#label6",
        "fillWorkerCount") >>

flat_selectApplicationMethod(method) ==
  LET value == IF method = Paper THEN Paper ELSE Electronic
  IN  << Call("selectApplicationMethod"),
         Op("click", "applicationMethod", value, value, "applicationMethod",
            "selectApplicationMethod") >>

flat_fillContactInfo(d) ==
  << Call("fillContactInfo"),
     Op("fill", "contactLastName", << >>, d.contactLastName, "saff_lastname",
        "fillContactInfo"),
     Op("fill", "contactFirstName", << >>, d.contactFirstName, "saff_firstname",
        "fillContactInfo"),
     Op("fill", "contactLastNameKana", << >>, d.contactLastNameKana,
        "saff_lastfurigana", "fillContactInfo"),
     Op("fill", "contactFirstNameKana", << >>, d.contactFirstNameKana,
        "staff_firstfurigana", "fillContactInfo"),
     Op("fill", "contactPhone", << >>, d.contactPhone, "#label20", "fillContactInfo"),
     Op("fill", "contactEmail", << >>, d.contactEmail, "email", "fillContactInfo"),
     Op("fill", "contactEmailConfirm", << >>, d.contactEmail, "reemail",
        "fillContactInfo") >>

flat_fillAgentName(agentName) ==
  << Call("fillAgentName"),
     Op("fill", "agentName", << >>, agentName, "#label15", "fillAgentName") >>

flat_selectApplicationReason(reason) ==
  << Call("selectApplicationReason"),
     SelectOption("selectApplicationReason", "applicationReason", reason, "#label23") >>

\* fillForm(page, data) of the flat page
fillForm(d) ==
  flat_selectEntityType(d.entityType)
  \o flat_fillCompanyInfo(d)
  \o flat_fillRepresentativeInfo(d)
  \o flat_fillCompanyAddress1(d)
  \o (IF Truthy(d.address2PostalCode) \/ Truthy(d.address2City)
         \/ Truthy(d.address2Street)
        THEN flat_fillCompanyAddress2(d) ELSE << >>)
  \o flat_fillWorkerCount(d.workerCount)
  \o flat_selectApplicationMethod(d.applicationMethod)
  \o flat_fillContactInfo(d)
  \o (IF Truthy(d.agentName) THEN flat_fillAgentName(d.agentName) ELSE << >>)
  \o flat_selectApplicationReason(d.applicationReason)

\* the section fillers that a program invokes, in order
RECURSIVE Sections(_)
Sections(program) ==
  IF program = << >> THEN << >>
  ELSE (IF Head(program).api = "call" THEN << Head(program).sec >> ELSE << >>)
         \o Sections(Tail(program))

\* the field values that the calls of a flat program leave when each of them
\* succeeds: fill, selectOption and the click of a radio button set the
\* field to the value they are given
RECURSIVE ValuesLeft(_, _)
ValuesLeft(program, start) ==
  IF program = << >> THEN start
  ELSE ValuesLeft(Tail(program),
                  IF Head(program).field # ""
                    THEN [start EXCEPT ![Head(program).field] = Head(program).val]
                    ELSE start)

\* what a successful fillForm leaves on a fresh flat page
FlatFields(d) == ValuesLeft(fillForm(d), [ f \in Fields |-> NoText ])

-----------------------------------------------------------------------------
(* C29 *)

\* C29: the two form fillers are equivalent at the level of logical
\* fields: for the record of a run, a fillFormData that succeeded has invoked
\* the section fillers that fillForm invokes, in the same order, and has
\* left every logical field with the value that fillForm leaves.
C29_FlatAndCompositeAgree ==
  (InDriver /\ fillOk) =>
    /\ calls = Sections(fillForm(data))
    /\ \A f \in Fields : field[f] = FlatFields(data)[f]

\* the part of C29 that holds: same fillers, same order, same skip
\* conditions, and every field other than the application reason agrees
C29_AgreeButReason ==
  (InDriver /\ fillOk) =>
    /\ calls = Sections(fillForm(data))
    /\ \A f \in Fields \ { "#label23" } : field[f] = FlatFields(data)[f]

-----------------------------------------------------------------------------
(* C30 *)

\* fillContactInfo has returned: the filler after it was invoked or a fill
\* ended
ContactInfoFilled ==
  \/ fillOk
  \/ \E i \in 1..(Len(calls) - 1) :
       /\ calls[i] = "fillContactInfo"
       /\ calls[i + 1] \in { "fillAgentName", "selectApplicationReason" }

\* C30: after fillContactInfo has succeeded the e-mail field and the e-mail
\* confirmation field both hold the record's contactEmail, up to the end of
\* the fill and after it; the flat filler leaves the same two values (looked
\* at once in a run, when the first filler has been invoked).
C30_EmailConfirmationMatches ==
  /\ ContactInfoFilled =>
       /\ field["email"] = data.contactEmail
       /\ field["reemail"] = data.contactEmail
  /\ (Len(calls) = 1) =>
       /\ FlatFields(data)["email"] = data.contactEmail
       /\ FlatFields(data)["reemail"] = data.contactEmail

\* a fill has ended with both fields holding the address
C30_Witness ==
  /\ InDriver
  /\ fillOk
  /\ Len(calls) > 0 /\ calls[Len(calls)] = "selectApplicationReason"
  /\ data.contactEmail # << >>
  /\ field["email"] = data.contactEmail
  /\ field["reemail"] = data.contactEmail

=============================================================================
